---- MODULE Spec2Model ----
(***************************************************************************)
(* Turn-taking orchestrator of the voice-call front end.                   *)
(*                                                                         *)
(* Spec models the two session hooks (use-webrtc-dify.ts, streaming, and   *)
(* use-webrtc-gemini.ts, blocking) together with the browser objects they  *)
(* drive: SpeechRecognition instances, the speechSynthesis queue, the      *)
(* restart timer and the backend call of every turn.  One action is one    *)
(* callback of the single-threaded event loop.                             *)
(*                                                                         *)
(* Strings of the program are sequences of one-character strings, so that  *)
(* trim(), toLowerCase(), split() and length are computed, not assumed.    *)
(* Status texts are written in ASCII.  Message ids (uuid v4) are modelled  *)
(* by the position at which the message is appended, which is unique in    *)
(* the same way.                                                           *)
(***************************************************************************)
EXTENDS Naturals, Integers, Sequences, FiniteSets

VARIABLES
  variant,                 \* "dify" | "gemini": which hook is mounted
  fast,                    \* options.fast of the Dify hook
  camSpeaking,             \* options.camSpeaking of the Dify hook
  mounted,                 \* the component is mounted
  status,                  \* React state: status
  isSessionActive,         \* React state: isSessionActive
  conversation,            \* React state: conversation (sequence of messages)
  conversationId,          \* React state: conversationId, 0 = undefined
  handlerConversationId,   \* the conversationId of the render whose
                           \* handleUserSpeech the recognizer's onresult calls
  audioStreamRef,          \* audioStreamRef.current # null
  audioContextRef,         \* audioContextRef.current # null
  analyserRef,             \* analyserRef.current # null
  volumeIntervalRef,       \* volumeIntervalRef.current # null
  volumeRafRef,            \* volumeRafRef.current # null
  recognitionRef,          \* index of the recognizer held, 0 = null
  synthRef,                \* synthRef.current # null
  voice,                   \* the hook's argument voice (a voiceURI), 0 = none
  voices,                  \* speechSynthesis.getVoices()
  selectedVoice,           \* index in voices of what getSelectedVoice returned
                           \* last, 0 = null, -1 = not called yet
  isSessionActiveRef,
  recognitionActiveRef,
  consecutiveNoSpeechRef,
  restartTimeoutRef,       \* restartTimeoutRef.current # null
  ttsInProgressRef,
  pendingRestartRef,
  ephemeralUserMessageIdRef, \* id of the ephemeral user message, 0 = null
  \* ---- the page (app/page.tsx)
  autoStarted,             \* React state: autoStarted
  idleElapsed,             \* Date.now() - lastSpeakingRef.current > AUTO_IDLE_MS
  userStarted,             \* observer: the last startSession came from a click
  \* ---- browser / network environment
  recognizer,              \* sequence: state of every SpeechRecognition created
  timerArmed,              \* the restart timeout created last is pending
  timerDelay,              \* its delay in ms (0 when not armed)
  orphanTimers,            \* restart timeouts created earlier and still pending
  utterances,              \* utterances queued or playing in speechSynthesis
  cancelled,               \* cancelled utterances whose end/error event is due
  liveStreams,             \* microphone streams whose tracks are not stopped
  startsMic,               \* startSession calls awaiting getUserMedia
  startsVoices,            \* startSession calls awaiting initializeSpeech
  turns,                   \* sequence: the backend call of every turn
  \* ---- observers
  stopStreak,              \* stopSession calls made in direct succession (0..2)
  silentRun,               \* listening periods in a row ended by no-speech
  lastStart,               \* the state of the recognizer on which the last
                           \* callback called start(), "none" if it did not
  timerReplaced,           \* the pending timeout was created by a schedule that
                           \* cancelled a pending one
  \* ---- one call of streamDify with the handlers of handleUserSpeech
  sseLines,                \* the lines the server sends (kinds, in order)
  lastTerminated,          \* the last line ends with a line feed
  wire,                    \* characters of the response body not yet read
  buffer,                  \* streamDify: buffer
  full,                    \* streamDify: full
  streamConversationId,    \* streamDify: conversationId, 0 = undefined
  callbacks,               \* the calls streamDify has made to its handlers
  accumulated,             \* handleUserSpeech: accumulated
  streamPhase,             \* "idle" | "reading" | "done" | "error"
  placeholder,             \* the assistant message the handlers write to
  shown,                   \* the texts onChunk has set, in order
  \* ---- the visual speech detector (use-visual-speech.ts)
  baselineRef,             \* ratio baseline, -1 = null; ratios in 1/10000
  baselineMouthWidthRef,   \* -1 = null
  baselineEyeWidthRef,     \* -1 = null
  warmupBufferRef,
  warmupMouthWidthRef,
  warmupEyeWidthRef,
  speakingRef,
  consecSpeakingRef,
  consecSilentRef,
  prevCenterRef,           \* x of the mouth centre of the last frame, -1 = null
  smoothRatioRef,
  isSpeaking,              \* React state: isSpeaking
  framesSeen,              \* frames with a face handled so far
  lowRun,                  \* frames in a row with ratio < releaseThreshold
  speakRun,                \* frames in a row classified candidate speaking
  \* ---- the detector's effect (use-visual-speech.ts 189-221)
  effects,                 \* sequence: every run of the effect, its position
                           \* in the async body and its cancelled flag
  streamRef,               \* run whose camera stream streamRef holds, 0 = null
  faceMeshRef,             \* run whose FaceMesh faceMeshRef holds, 0 = null
  frameTimerRef,           \* run whose tick set frameTimerRef last, 0 = null
  armedTimers,             \* runs whose frame timeout is pending
  liveTracks,              \* runs whose camera tracks are not stopped
  \* ---- the diagnostic logs (lib/flow-tracker.ts, lib/logger.ts)
  flowEnabled,             \* FlowTracker.enabled
  flowEvents,              \* FlowTracker.events; an event is the number of
                           \* the push that made it
  flowPushed,              \* observer: events handed to push() so far
  logs,                    \* Logger.logs; an entry is the number of the
                           \* addLog that made it
  logSaved,                \* observer: entries the constructor loaded
  logAdded                 \* observer: entries ever added, saved ones included

vars == <<variant, fast, camSpeaking, mounted, status, isSessionActive,
          conversation, conversationId, handlerConversationId, voice, voices,
          selectedVoice, autoStarted, idleElapsed, userStarted, audioStreamRef, audioContextRef, analyserRef,
          volumeIntervalRef, volumeRafRef, recognitionRef, synthRef,
          isSessionActiveRef, recognitionActiveRef, consecutiveNoSpeechRef,
          restartTimeoutRef, ttsInProgressRef, pendingRestartRef,
          ephemeralUserMessageIdRef, recognizer, timerArmed, timerDelay,
          orphanTimers, timerReplaced, utterances, cancelled, liveStreams, startsMic, startsVoices,
          turns, stopStreak, silentRun, lastStart, sseLines, lastTerminated, wire,
          buffer, full, streamConversationId, callbacks, accumulated,
          streamPhase, placeholder, shown,
          baselineRef, baselineMouthWidthRef, baselineEyeWidthRef,
          warmupBufferRef, warmupMouthWidthRef, warmupEyeWidthRef,
          speakingRef, consecSpeakingRef, consecSilentRef, prevCenterRef,
          smoothRatioRef, isSpeaking, framesSeen, lowRun, speakRun,
          effects, streamRef, faceMeshRef, frameTimerRef, armedTimers,
          liveTracks, flowEnabled, flowEvents, flowPushed, logs, logSaved,
          logAdded>>

\* ------------------------------------------------------------------ bounds
MaxSessions == 1     \* startSession calls in one run
MaxTurns == 1        \* backend calls (turns) in one run
MaxChunks == 1       \* answer chunks streamed in one turn
SilentRunCap == 2    \* the observer silentRun stops counting here
MaxNoSpeech == 6     \* no-speech errors counted in a row
MaxTalkTurns == 2    \* turns of the conversation of SpecTalk
MaxLines == 3        \* lines of one response body
MaxRead == 14        \* characters one reader.read() returns at most
MaxVoices == 2       \* voices installed in the browser
MaxStarts == 2       \* startSession calls in one run of SpecRestart
MaxFrames == 11      \* camera frames with a face in one run
WarmupFrames == 2    \* option warmupFrames the detector is mounted with

\* ------------------------------------------------------- program constants
NoSpeechBaseDelay == 500
NoSpeechStepDelay == 400
NoSpeechMaxDelay == 6000
NoSpeechPauseThreshold == 6
FastNoSpeechCap == 1500
FastCycleCap == 120
FastTtsEndCap == 100
CycleOnEndDelay == 300
AbortedDelay == 200
GenericErrorDelay == 1000
TtsEndDelay == 150
TtsErrorDelay == 250
NoiseThresholdFast == 8
NoiseThresholdSlow == 10
NoiseMaxTokenLen == 5
NoiseMinLen == 2

Min(a, b) == IF a < b THEN a ELSE b

\* ------------------------------------------------------------------ strings
Space == " "
ToLowerChar(c) == IF c = "C" THEN "c" ELSE IF c = "F" THEN "f" ELSE c
ToLowerCase(s) == [i \in DOMAIN s |-> ToLowerChar(s[i])]

RECURSIVE TrimStart(_)
TrimStart(s) == IF s # <<>> /\ Head(s) = Space THEN TrimStart(Tail(s)) ELSE s
RECURSIVE TrimEnd(_)
TrimEnd(s) ==
  IF s # <<>> /\ s[Len(s)] = Space THEN TrimEnd(SubSeq(s, 1, Len(s) - 1)) ELSE s
Trim(s) == TrimEnd(TrimStart(s))

\* trimmed.split(/\s+/).length for a trimmed, non-empty string
SplitCount(s) ==
  1 + Cardinality({i \in 1..(Len(s) - 1) : s[i] = Space /\ s[i + 1] # Space})

\* "a^" stands for the letter a with circumflex and hook of "phay"
NOISE_SINGLE_WORDS ==
  { <<"p", "h", "a^", "y">>, <<",">>, <<"c", "o", "m", "m", "a">> }

NOISE_VOLUME_THRESHOLD == IF fast THEN NoiseThresholdFast ELSE NoiseThresholdSlow

IsNoise(text, vol) ==
  LET trimmed == ToLowerCase(Trim(text)) IN
    \/ trimmed = <<>>
    \/ /\ SplitCount(trimmed) = 1
       /\ Len(trimmed) <= NoiseMaxTokenLen
       /\ vol < NOISE_VOLUME_THRESHOLD
       /\ trimmed \in NOISE_SINGLE_WORDS
    \/ Len(trimmed) < NoiseMinLen /\ vol < NOISE_VOLUME_THRESHOLD

\* transcripts the recognizer may deliver, and volumes the analyser may show
Fragments == { <<",">>, <<"o", "k">> }
Volumes == {5, 50}
Chunks == { <<"x">> }
TypedTexts == { <<" ">>, <<"h", "i">> }

\* ------------------------------------------------------------- transcript
NewEphemeral(id) ==
  [id |-> id, role |-> "user", text |-> <<>>, isFinal |-> FALSE,
   status |-> "speaking"]

NewPlaceholder(id) ==
  [id |-> id, role |-> "assistant", text |-> <<>>, isFinal |-> FALSE,
   status |-> "processing"]

\* getOrCreateEphemeralUserId: the conversation and the ref after the call
CreateEphemeralConv(conv, eph) ==
  IF eph = 0 THEN Append(conv, NewEphemeral(Len(conv) + 1)) ELSE conv
CreateEphemeralId(conv, eph) == IF eph = 0 THEN Len(conv) + 1 ELSE eph

\* updateEphemeral(partial)
UpdateEphemeral(conv, eph, text, final, st) ==
  IF eph = 0 THEN conv
  ELSE [i \in DOMAIN conv |->
          IF conv[i].id = eph
          THEN [conv[i] EXCEPT !.text = text, !.isFinal = final, !.status = st]
          ELSE conv[i]]

\* ------------------------------------------------- SpeechRecognition object
\* idle -start()-> starting -onstart-> listening; stop() -> stopping;
\* an error event leaves it ending; onend returns it to idle.
\* start() throws InvalidStateError unless the recognizer is idle
StartOn(rec, r) ==
  IF rec[r] = "idle" THEN [rec EXCEPT ![r] = "starting"] ELSE rec
StopOn(rec, r) ==
  IF rec[r] \in {"starting", "listening"} THEN [rec EXCEPT ![r] = "stopping"]
  ELSE rec
AfterStart(r) == StartOn(recognizer, r)
AfterStop(r) == StopOn(recognizer, r)

\* the effect with deps [camSpeaking, isSessionActive], run with the values of
\* the render that changed them: the recognizers and recognitionActiveRef after
\* the effect has run; start is the state of the recognizer it called start()
\* on, "none" if it did not call it
CamEffect(cam, active, ref, rec, act) ==
  IF ~active \/ ref = 0 THEN [rec |-> rec, act |-> act, start |-> "none"]
  ELSE IF cam
  THEN IF act THEN [rec |-> rec, act |-> act, start |-> "none"]
       ELSE [rec |-> StartOn(rec, ref), act |-> rec[ref] = "idle",
             start |-> rec[ref]]
  ELSE IF act THEN [rec |-> StopOn(rec, ref), act |-> FALSE, start |-> "none"]
       ELSE [rec |-> rec, act |-> act, start |-> "none"]

\* ------------------------------------------------------------ restart timer
\* a clearRestartTimer that flips the handle (used to test the checks of stop)
ClearRestartTimerFlip ==
  /\ restartTimeoutRef' = ~restartTimeoutRef
  /\ timerArmed' = FALSE
  /\ timerDelay' = 0
  /\ pendingRestartRef' = FALSE
  /\ timerReplaced' = FALSE
  /\ UNCHANGED orphanTimers

\* a clearRestartTimer that forgets clearTimeout (used to test the checks of
\* the single timer)
ArmedAfterClearKept == timerArmed

\* if (restartTimeoutRef.current) clearTimeout(restartTimeoutRef.current):
\* whether the timeout created last is still pending afterwards; the ref, when
\* not null, holds the handle of that timeout
ArmedAfterClear == IF restartTimeoutRef THEN FALSE ELSE timerArmed

ClearRestartTimer ==
  /\ restartTimeoutRef' = FALSE
  /\ timerArmed' = ArmedAfterClear
  /\ timerDelay' = (IF ArmedAfterClear THEN timerDelay ELSE 0)
  /\ pendingRestartRef' = FALSE
  /\ timerReplaced' = FALSE
  /\ UNCHANGED orphanTimers

FastDelay(delay, reason) ==
  IF ~fast THEN delay
  ELSE IF reason = "cycle_onend" THEN Min(delay, FastCycleCap)
  ELSE IF reason = "no_speech" THEN Min(delay, FastNoSpeechCap)
  ELSE IF reason = "tts_end" THEN Min(delay, FastTtsEndCap)
  ELSE delay

\* a schedule that marks the restart pending and arms no timeout
ScheduleRecognitionRestartLost(delay, reason) ==
  /\ restartTimeoutRef' = TRUE
  /\ orphanTimers' = orphanTimers
  /\ timerArmed' = ArmedAfterClear
  /\ timerDelay' = (IF ArmedAfterClear THEN timerDelay ELSE 0)
  /\ pendingRestartRef' = TRUE
  /\ timerReplaced' = FALSE

\* clearRestartTimer(), then a new timeout whose handle the ref takes; a
\* timeout that clearRestartTimer left pending is no longer referenced
ScheduleRecognitionRestart(delay, reason) ==
  /\ restartTimeoutRef' = TRUE
  /\ orphanTimers' = orphanTimers + (IF ArmedAfterClear THEN 1 ELSE 0)
  /\ timerArmed' = TRUE
  /\ timerDelay' = FastDelay(delay, reason)
  /\ pendingRestartRef' = TRUE
  /\ timerReplaced' = (restartTimeoutRef /\ timerArmed)

TimerSame ==
  UNCHANGED <<restartTimeoutRef, timerArmed, timerDelay, orphanTimers,
              pendingRestartRef, timerReplaced>>

\* a backoff that grows linearly (used to test the checks of the delay)
NoSpeechDelayLinear(attempts) ==
  Min(NoSpeechBaseDelay + (attempts - 1) * NoSpeechStepDelay, NoSpeechMaxDelay)

NoSpeechDelay(attempts) ==
  Min(NoSpeechBaseDelay + (attempts - 1) * (attempts - 1) * NoSpeechStepDelay,
      NoSpeechMaxDelay)

Bump(n, cap) == IF n < cap THEN n + 1 ELSE cap


\* ------------------------------------------------------ variable groups
\* the variables of the wire-level model of streamDify
streamVars == <<sseLines, lastTerminated, wire, buffer, full,
                streamConversationId, callbacks, accumulated, streamPhase,
                placeholder, shown>>
\* the variables of the visual speech detector
\* the module singletons flow and logger
logVars == <<flowEnabled, flowEvents, flowPushed, logs, logSaved, logAdded>>
cameraVars == <<effects, streamRef, faceMeshRef, frameTimerRef, armedTimers,
                liveTracks>>
detectorVars == <<baselineRef, baselineMouthWidthRef, baselineEyeWidthRef,
                  warmupBufferRef, warmupMouthWidthRef, warmupEyeWidthRef,
                  speakingRef, consecSpeakingRef, consecSilentRef,
                  prevCenterRef, smoothRatioRef, isSpeaking, framesSeen,
                  lowRun, speakRun>>
visualVars == <<detectorVars, cameraVars>>
\* what no callback of the session hooks changes
\* the voice preference, the browser's voices and the voice selected
voiceVars == <<voice, voices, selectedVoice>>
cfg == <<variant, fast, voiceVars, streamVars, visualVars, logVars>>
\* the state of the page around the hook
pageVars == <<autoStarted, idleElapsed, userStarted>>
\* the continuity token of the Dify backend, as the hook holds it
token == <<conversationId, handlerConversationId>>
media == <<audioStreamRef, audioContextRef, analyserRef, volumeIntervalRef,
           volumeRafRef, liveStreams>>
timer == <<restartTimeoutRef, timerArmed, timerDelay, orphanTimers,
           pendingRestartRef, timerReplaced>>
starts == <<startsMic, startsVoices>>
ObserveStart(streak, run, st) ==
  stopStreak' = streak /\ silentRun' = run /\ lastStart' = st
Observe(streak, run) == ObserveStart(streak, run, "none")

\* ================================================== Dify hook: session
\* the startSession calls made so far that have not failed
SessionsStarted == Len(recognizer) + startsMic + startsVoices

\* stopSession(): everything it assigns, in one step
StopSession ==
  /\ recognizer' = IF recognitionRef # 0 /\ recognitionActiveRef
                   THEN AfterStop(recognitionRef) ELSE recognizer
  /\ recognitionActiveRef' = FALSE
  /\ recognitionRef' = 0
  /\ utterances' = IF synthRef THEN 0 ELSE utterances        \* cancel()
  /\ cancelled' = IF synthRef THEN cancelled + utterances ELSE cancelled
  /\ liveStreams' = IF audioStreamRef THEN liveStreams - 1 ELSE liveStreams
  /\ audioStreamRef' = FALSE
  /\ audioContextRef' = FALSE
  /\ volumeIntervalRef' = FALSE
  /\ volumeRafRef' = FALSE
  /\ analyserRef' = FALSE
  /\ ephemeralUserMessageIdRef' = 0
  /\ isSessionActive' = FALSE
  /\ isSessionActiveRef' = FALSE
  /\ ClearRestartTimer
  /\ ttsInProgressRef' = FALSE
  /\ consecutiveNoSpeechRef' = 0
  /\ status' = "Da dung phien"
  /\ UNCHANGED <<synthRef, conversation>>

\* the hook's stopSession as its callers reach it: handleStartStopClick and
\* the idle loop of page.tsx, both while the isSessionActive of their render is
\* true, which it still is for a second call made before the re-render
StopSessionCalled ==
  /\ variant = "dify" /\ mounted
  /\ isSessionActive \/ stopStreak = 1
  /\ StopSession
  /\ Observe(Bump(stopStreak, 2), 0)
  /\ UNCHANGED <<cfg, token, camSpeaking, mounted, starts, turns>>

DifyStopSession == StopSessionCalled /\ UNCHANGED pageVars

\* useEffect(() => () => stopSession(), []): teardown on unmount
DifyUnmount ==
  /\ variant = "dify" /\ mounted
  /\ StopSession
  /\ mounted' = FALSE
  /\ Observe(Bump(stopStreak, 2), 0)
  /\ UNCHANGED <<cfg, pageVars, token, camSpeaking, starts, turns>>

\* startSession() up to the await of getUserMedia; its callers
\* (handleStartStopClick, the auto-start of page.tsx) test !isSessionActive
StartSessionCalled ==
  /\ variant = "dify" /\ mounted /\ ~isSessionActive
  /\ status' = "Yeu cau mic..."
  /\ startsMic' = startsMic + 1
  /\ Observe(0, 0)
  \* the handlers initializeSpeech installs call the handleUserSpeech of the
  \* render this startSession belongs to
  /\ handlerConversationId' = conversationId
  /\ UNCHANGED <<cfg, conversationId, camSpeaking, mounted, isSessionActive,
                 conversation, media,
                 recognitionRef, synthRef, isSessionActiveRef,
                 recognitionActiveRef, consecutiveNoSpeechRef, timer,
                 ttsInProgressRef, ephemeralUserMessageIdRef, recognizer,
                 utterances, cancelled, startsVoices, turns>>

DifyStartSession == StartSessionCalled /\ UNCHANGED pageVars

\* getUserMedia resolves: setupAudioVisualization, then initializeSpeech up to
\* its wait for the voice list
DifyMicGranted ==
  /\ variant = "dify" /\ startsMic > 0
  /\ startsMic' = startsMic - 1
  /\ startsVoices' = startsVoices + 1
  /\ audioStreamRef' = TRUE
  /\ liveStreams' = liveStreams + 1
  /\ audioContextRef' = TRUE
  /\ analyserRef' = TRUE
  /\ volumeRafRef' = (IF fast THEN TRUE ELSE volumeRafRef)
  /\ volumeIntervalRef' = (IF fast THEN volumeIntervalRef ELSE TRUE)
  /\ status' = "Khoi tao giong noi..."
  /\ synthRef' = TRUE
  /\ Observe(0, 0)
  /\ UNCHANGED <<cfg, pageVars, token, camSpeaking, mounted, isSessionActive, conversation,
                 recognitionRef, isSessionActiveRef, recognitionActiveRef,
                 consecutiveNoSpeechRef, timer, ttsInProgressRef,
                 ephemeralUserMessageIdRef, recognizer, utterances, cancelled,
                 turns>>

\* getUserMedia rejects: the catch block sets the error status, then stopSession
DifyMicDenied ==
  /\ variant = "dify" /\ startsMic > 0
  /\ startsMic' = startsMic - 1
  /\ StopSession
  /\ Observe(0, 0)
  /\ UNCHANGED <<cfg, pageVars, token, camSpeaking, mounted, startsVoices, turns>>

\* initializeSpeech returns: the recognizer exists, the session is active
DifySpeechInitDone ==
  /\ variant = "dify" /\ startsVoices > 0
  /\ startsVoices' = startsVoices - 1
  \* the effect of the render with isSessionActive = TRUE runs only while the
  \* component is mounted
  /\ LET eff == CamEffect(camSpeaking, mounted, Len(recognizer) + 1,
                          Append(recognizer, "idle"), recognitionActiveRef)
     IN /\ recognizer' = eff.rec /\ recognitionActiveRef' = eff.act
        /\ ObserveStart(0, 0, eff.start)
  /\ recognitionRef' = Len(recognizer) + 1
  /\ isSessionActive' = TRUE
  /\ isSessionActiveRef' = TRUE
  /\ status' = "Phien hoat dong - Cho camera phat hien noi"
  /\ UNCHANGED <<cfg, pageVars, token, camSpeaking, mounted, conversation, media, synthRef,
                 consecutiveNoSpeechRef, timer,
                 ttsInProgressRef, ephemeralUserMessageIdRef, utterances,
                 cancelled, startsMic, turns>>

\* initializeSpeech throws (no SpeechRecognition): catch block, stopSession
DifySpeechInitFail ==
  /\ variant = "dify" /\ startsVoices > 0
  /\ startsVoices' = startsVoices - 1
  /\ StopSession
  /\ Observe(0, 0)
  /\ UNCHANGED <<cfg, pageVars, token, camSpeaking, mounted, startsMic, turns>>

\* ====================================== Dify hook: camera gate (useEffect)
\* the parent re-renders the hook with another camSpeaking; the effect follows
CamSpeakingChanged ==
  /\ variant = "dify" /\ mounted
  /\ camSpeaking' = ~camSpeaking
  /\ LET eff == CamEffect(~camSpeaking, isSessionActive, recognitionRef,
                          recognizer, recognitionActiveRef)
     IN /\ recognizer' = eff.rec
        /\ recognitionActiveRef' = eff.act
        /\ ObserveStart(0, IF eff.rec = recognizer THEN silentRun ELSE 0,
                        eff.start)
  /\ UNCHANGED <<cfg, token, mounted, status, isSessionActive, conversation,
                 media, recognitionRef, synthRef, isSessionActiveRef,
                 consecutiveNoSpeechRef, timer, ttsInProgressRef,
                 ephemeralUserMessageIdRef, utterances, cancelled, starts,
                 turns>>

DifyCamChange == CamSpeakingChanged /\ UNCHANGED pageVars

\* ========================================== Dify hook: the restart timer
\* the setTimeout callback of scheduleRecognitionRestart
DifyRestartTimerFire ==
  /\ variant = "dify"
  /\ \/ /\ timerArmed
        /\ timerArmed' = FALSE /\ timerDelay' = 0
        /\ timerReplaced' = FALSE
        /\ UNCHANGED orphanTimers
     \/ /\ orphanTimers > 0
        /\ orphanTimers' = orphanTimers - 1
        /\ UNCHANGED <<timerArmed, timerDelay, timerReplaced>>
  /\ pendingRestartRef' = FALSE
  /\ LET calls == /\ isSessionActiveRef /\ ~ttsInProgressRef
                  /\ ~recognitionActiveRef /\ recognitionRef # 0
     IN /\ recognizer' = IF calls THEN AfterStart(recognitionRef)
                         ELSE recognizer
        /\ ObserveStart(0, silentRun,
                        IF calls THEN recognizer[recognitionRef] ELSE "none")
  /\ UNCHANGED <<cfg, pageVars, token, camSpeaking, mounted, status, isSessionActive,
                 conversation, media, recognitionRef, synthRef,
                 isSessionActiveRef, recognitionActiveRef,
                 consecutiveNoSpeechRef, restartTimeoutRef, ttsInProgressRef,
                 ephemeralUserMessageIdRef, utterances, cancelled, starts,
                 turns>>


\* ================================================ Dify hook: turns and TTS
\* the update that goes by the role of the message instead of its id
MapByRole(conv, id, text, final, st) ==
  [i \in DOMAIN conv |->
     IF conv[i].role = "assistant"
     THEN [conv[i] EXCEPT !.text = text, !.isFinal = final, !.status = st]
     ELSE conv[i]]

MapById(conv, id, text, final, st) ==
  [i \in DOMAIN conv |->
     IF conv[i].id = id
     THEN [conv[i] EXCEPT !.text = text, !.isFinal = final, !.status = st]
     ELSE conv[i]]

\* handleUserSpeech(text) up to the first await inside streamDify, applied to
\* the conversation conv; kind is "speech" for a recognizer result and "text"
\* for a typed message; conversation_id is the one the request carries (the
\* conversationId of the render the caller belongs to), issued the one onDone
\* receives (0 until then) and session counts the sessions started before the
\* request.  userMsg records the ephemeral
\* message it finalised,
\* volume the volume at which the transcript passed the noise filter.
HandleUserSpeech(conv, text, kind, vol) ==
  LET conv1 == UpdateEphemeral(conv, ephemeralUserMessageIdRef, text, TRUE, "final")
      assistantId == Len(conv1) + 1
  IN /\ conversation' = Append(conv1, NewPlaceholder(assistantId))
     /\ ephemeralUserMessageIdRef' = 0
     /\ status' = "Gui toi Dify..."
     /\ turns' = Append(turns,
                   [assistantId |-> assistantId, query |-> text,
                    accumulated |-> <<>>, chunks |-> 0, phase |-> "streaming",
                    kind |-> kind, userMsg |-> ephemeralUserMessageIdRef,
                    volume |-> vol,
                    conversation_id |-> IF kind = "speech"
                                        THEN handlerConversationId
                                        ELSE conversationId,
                    issued |-> 0, session |-> Len(recognizer)])

\* speak(text)
Speak(text) ==
  IF ~synthRef \/ text = <<>>
  THEN UNCHANGED <<ttsInProgressRef, timer, recognitionActiveRef, recognizer,
                   utterances>>
  ELSE /\ ttsInProgressRef' = TRUE
       /\ ClearRestartTimer
       /\ IF recognitionActiveRef /\ recognitionRef # 0
          THEN /\ recognitionActiveRef' = FALSE
               /\ recognizer' = AfterStop(recognitionRef)
          ELSE UNCHANGED <<recognitionActiveRef, recognizer>>
       /\ utterances' = utterances + 1

\* an onChunk that shows the last chunk only (used to test the checks of
\* streaming)
OnChunkReplace(acc, chunk) == chunk

\* handlers.onChunk: accumulated += chunk
OnChunkText(acc, chunk) == acc \o chunk

\* streamDify delivers an answer fragment: handlers.onChunk
DifyOnChunk(t, chunk) ==
  /\ variant = "dify"
  /\ turns[t].phase = "streaming" /\ turns[t].chunks < MaxChunks
  /\ LET text == OnChunkText(turns[t].accumulated, chunk) IN
       /\ Observe(0, silentRun)
       /\ turns' = [turns EXCEPT ![t].accumulated = text,
                                 ![t].chunks = @ + 1]
       /\ conversation' =
            [i \in DOMAIN conversation |->
               IF conversation[i].id = turns[t].assistantId
               THEN [conversation[i] EXCEPT !.text = text]
               ELSE conversation[i]]
  /\ UNCHANGED <<cfg, pageVars, token, camSpeaking, mounted, status, isSessionActive, media,
                 recognitionRef, synthRef, isSessionActiveRef,
                 recognitionActiveRef, consecutiveNoSpeechRef, timer,
                 ttsInProgressRef, ephemeralUserMessageIdRef, recognizer,
                 utterances, cancelled, starts>>

\* the conversation_id the stream of one answer carried: 0 = none, 1 = one
ServerTokens == {0, 1}

\* streamDify completes (message_end, [DONE] or end of stream): handlers.onDone
DifyOnDone(t) ==
  /\ variant = "dify"
  /\ turns[t].phase = "streaming"
  /\ conversation' = MapById(conversation, turns[t].assistantId,
                             turns[t].accumulated, TRUE, "final")
  /\ Speak(turns[t].accumulated)
  /\ status' = "Hoan thanh"
  \* if (newCid) setConversationId(newCid)
  /\ \E newCid \in ServerTokens :
       /\ turns' = [turns EXCEPT ![t].phase = "done", ![t].issued = newCid]
       /\ conversationId' = IF newCid # 0 THEN newCid ELSE conversationId
  /\ Observe(0, 0)
  /\ UNCHANGED <<cfg, pageVars, handlerConversationId, camSpeaking, mounted, isSessionActive, media,
                 recognitionRef, synthRef, isSessionActiveRef,
                 consecutiveNoSpeechRef, ephemeralUserMessageIdRef, cancelled,
                 starts>>

\* the request fails: handlers.onError
DifyOnStreamError(t) ==
  /\ variant = "dify"
  /\ turns[t].phase = "streaming"
  /\ turns' = [turns EXCEPT ![t].phase = "error"]
  /\ conversation' =
       [i \in DOMAIN conversation |->
          IF conversation[i].id = turns[t].assistantId
          THEN [conversation[i] EXCEPT !.text = <<"(Loi: ", "failed", ")">>,
                                       !.isFinal = TRUE]
          ELSE conversation[i]]
  /\ status' = "Loi Dify"
  /\ Observe(0, silentRun)
  /\ UNCHANGED <<cfg, pageVars, token, camSpeaking, mounted, isSessionActive, media,
                 recognitionRef, synthRef, isSessionActiveRef,
                 recognitionActiveRef, consecutiveNoSpeechRef, timer,
                 ttsInProgressRef, ephemeralUserMessageIdRef, recognizer,
                 utterances, cancelled, starts>>

\* a handler that only clears the flag (used to test the checks of the resume)
UtterHandlerQuiet(delay, reason) ==
  /\ \/ utterances > 0 /\ utterances' = utterances - 1 /\ UNCHANGED cancelled
     \/ cancelled > 0 /\ cancelled' = cancelled - 1 /\ UNCHANGED utterances
  /\ ttsInProgressRef' = FALSE
  /\ Observe(0, silentRun)
  /\ TimerSame
  /\ UNCHANGED <<cfg, pageVars, token, camSpeaking, mounted, status, isSessionActive,
                 conversation, media, recognitionRef, synthRef,
                 isSessionActiveRef, recognitionActiveRef,
                 consecutiveNoSpeechRef, ephemeralUserMessageIdRef, recognizer,
                 starts, turns>>

\* an utterance leaves speechSynthesis: one that played to its end, or one
\* removed by cancel(); utter.onend / utter.onerror (delay 150 / 250)
UtterHandler(delay, reason) ==
  /\ \/ utterances > 0 /\ utterances' = utterances - 1 /\ UNCHANGED cancelled
     \/ cancelled > 0 /\ cancelled' = cancelled - 1 /\ UNCHANGED utterances
  /\ ttsInProgressRef' = FALSE
  /\ Observe(0, silentRun)
  /\ IF isSessionActiveRef
     THEN ScheduleRecognitionRestart(delay, reason)
     ELSE TimerSame
  /\ UNCHANGED <<cfg, pageVars, token, camSpeaking, mounted, status, isSessionActive,
                 conversation, media, recognitionRef, synthRef,
                 isSessionActiveRef, recognitionActiveRef,
                 consecutiveNoSpeechRef, ephemeralUserMessageIdRef, recognizer,
                 starts, turns>>

DifyUtterEnd == variant = "dify" /\ UtterHandler(TtsEndDelay, "tts_end")
DifyUtterError == variant = "dify" /\ UtterHandler(TtsErrorDelay, "tts_error")

\* sendTextMessage(text)
DifySendTextMessage(text) ==
  /\ variant = "dify" /\ mounted
  /\ Trim(text) # <<>>
  /\ HandleUserSpeech(
       Append(conversation,
              [id |-> Len(conversation) + 1, role |-> "user", text |-> text,
               isFinal |-> TRUE, status |-> "final"]),
       text, "text", 0)
  /\ Observe(0, 0)
  /\ UNCHANGED <<cfg, pageVars, token, camSpeaking, mounted, isSessionActive, media,
                 recognitionRef, synthRef, isSessionActiveRef,
                 recognitionActiveRef, consecutiveNoSpeechRef, timer,
                 ttsInProgressRef, recognizer, utterances, cancelled, starts>>

\* ========================================== Dify hook: recognizer events
DifyOnStart(r) ==
  /\ variant = "dify"
  /\ recognizer[r] = "starting"
  /\ recognizer' = [recognizer EXCEPT ![r] = "listening"]
  /\ status' = "Dang nghe..."
  /\ consecutiveNoSpeechRef' = 0
  /\ recognitionActiveRef' = TRUE
  /\ conversation' = CreateEphemeralConv(conversation, ephemeralUserMessageIdRef)
  /\ ephemeralUserMessageIdRef' =
       CreateEphemeralId(conversation, ephemeralUserMessageIdRef)
  /\ Observe(0, silentRun)
  /\ UNCHANGED <<cfg, pageVars, token, camSpeaking, mounted, isSessionActive, media,
                 recognitionRef, synthRef, isSessionActiveRef, timer,
                 ttsInProgressRef, utterances, cancelled, starts,
                 turns>>

DifyOnEnd(r) ==
  /\ variant = "dify"
  /\ recognizer[r] \in {"listening", "stopping", "ending"}
  /\ recognizer' = [recognizer EXCEPT ![r] = "idle"]
  /\ recognitionActiveRef' = FALSE
  /\ IF ~isSessionActiveRef
     THEN status' = "Phien hoat dong - Nhan de noi" /\ TimerSame
     ELSE /\ UNCHANGED status
          /\ IF ttsInProgressRef \/ pendingRestartRef
             THEN TimerSame
             ELSE ScheduleRecognitionRestart(CycleOnEndDelay, "cycle_onend")
  /\ Observe(0, IF recognizer[r] = "ending" THEN silentRun ELSE 0)
  /\ UNCHANGED <<cfg, pageVars, token, camSpeaking, mounted, isSessionActive, conversation,
                 media, recognitionRef, synthRef, isSessionActiveRef,
                 consecutiveNoSpeechRef, ttsInProgressRef,
                 ephemeralUserMessageIdRef, utterances, cancelled, starts,
                 turns>>

ErrorKinds == {"no-speech", "aborted", "network"}

DifyOnError(r, err) ==
  /\ variant = "dify"
  /\ recognizer[r] \in
       (IF err = "aborted" THEN {"starting", "listening", "stopping"}
        ELSE {"starting", "listening"})
  /\ err = "no-speech" /\ isSessionActiveRef
       => consecutiveNoSpeechRef < MaxNoSpeech
  /\ recognizer' = [recognizer EXCEPT ![r] = "ending"]
  /\ IF err = "aborted"
     THEN /\ IF isSessionActiveRef /\ ~ttsInProgressRef /\ ~pendingRestartRef
             THEN ScheduleRecognitionRestart(AbortedDelay, "aborted")
             ELSE TimerSame
          /\ UNCHANGED <<status, consecutiveNoSpeechRef>>
     ELSE IF ~isSessionActiveRef
     THEN TimerSame /\ UNCHANGED <<status, consecutiveNoSpeechRef>>
     ELSE IF err = "no-speech"
     THEN LET attempts == consecutiveNoSpeechRef + 1 IN
            /\ consecutiveNoSpeechRef' = attempts
            /\ IF attempts >= NoSpeechPauseThreshold
               THEN /\ status' = "Khong phat hien giong noi - tam dung"
                    /\ TimerSame
               ELSE /\ status' = "Dang cho ban noi..."
                    /\ ScheduleRecognitionRestart(NoSpeechDelay(attempts),
                                                  "no_speech")
     ELSE /\ status' = "Loi nhan dang"
          /\ ScheduleRecognitionRestart(GenericErrorDelay, "generic_error")
          /\ UNCHANGED consecutiveNoSpeechRef
  /\ Observe(0, IF /\ err = "no-speech" /\ recognizer[r] = "listening"
                   /\ r = recognitionRef /\ isSessionActiveRef
                THEN Bump(silentRun, SilentRunCap) ELSE 0)
  /\ UNCHANGED <<cfg, pageVars, token, camSpeaking, mounted, isSessionActive, conversation,
                 media, recognitionRef, synthRef, isSessionActiveRef,
                 recognitionActiveRef, ttsInProgressRef,
                 ephemeralUserMessageIdRef, utterances, cancelled, starts,
                 turns>>

\* recognition.onresult: final and interim are the concatenated transcripts of
\* the event's final and interim results, vol is currentVolumeRef.current
DifyOnResult(r, final, interim, vol) ==
  /\ variant = "dify"
  /\ recognizer[r] \in {"listening", "stopping"}
  /\ IF final # <<>>
     THEN IF IsNoise(final, vol)
          THEN /\ Observe(0, silentRun)
               /\ UNCHANGED <<conversation, ephemeralUserMessageIdRef, status,
                              turns>>
          ELSE /\ HandleUserSpeech(conversation, final, "speech", vol)
               /\ Observe(0, 0)
     ELSE IF interim # <<>> /\ ~IsNoise(interim, vol)
     THEN /\ conversation' =
               UpdateEphemeral(
                 CreateEphemeralConv(conversation, ephemeralUserMessageIdRef),
                 CreateEphemeralId(conversation, ephemeralUserMessageIdRef),
                 interim, FALSE, "speaking")
          /\ ephemeralUserMessageIdRef' =
               CreateEphemeralId(conversation, ephemeralUserMessageIdRef)
          /\ Observe(0, 0)
          /\ UNCHANGED <<status, turns>>
     ELSE /\ Observe(0, silentRun)
          /\ UNCHANGED <<conversation, ephemeralUserMessageIdRef, status,
                         turns>>
  /\ UNCHANGED <<cfg, pageVars, token, camSpeaking, mounted, isSessionActive, media,
                 recognitionRef, synthRef, isSessionActiveRef,
                 recognitionActiveRef, consecutiveNoSpeechRef, timer,
                 ttsInProgressRef, recognizer, utterances, cancelled, starts>>

\* ===================================================== Gemini hook
\* the refs and flags only the Dify hook has (and the wire-level model)
difyOnly == <<fast, camSpeaking, isSessionActiveRef, recognitionActiveRef,
              consecutiveNoSpeechRef, restartTimeoutRef, timerArmed,
              timerDelay, orphanTimers, timerReplaced, pendingRestartRef, ttsInProgressRef, volumeRafRef,
              token, voiceVars, pageVars, streamVars, visualVars, logVars>>

\* stopSession() of the Gemini hook
GeminiStop ==
  /\ recognizer' = IF recognitionRef # 0 THEN AfterStop(recognitionRef)
                   ELSE recognizer
  /\ recognitionRef' = 0
  /\ utterances' = IF synthRef THEN 0 ELSE utterances        \* cancel()
  /\ cancelled' = IF synthRef THEN cancelled + utterances ELSE cancelled
  /\ liveStreams' = IF audioStreamRef THEN liveStreams - 1 ELSE liveStreams
  /\ audioStreamRef' = FALSE
  /\ audioContextRef' = FALSE
  /\ volumeIntervalRef' = FALSE
  /\ analyserRef' = FALSE
  /\ ephemeralUserMessageIdRef' = 0
  /\ isSessionActive' = FALSE
  /\ status' = "Phien da dung"
  /\ conversation' = <<>>
  /\ UNCHANGED <<variant, synthRef, difyOnly>>

GeminiStopSession ==
  /\ variant = "gemini" /\ mounted
  /\ isSessionActive \/ stopStreak = 1
  /\ GeminiStop
  /\ Observe(Bump(stopStreak, 2), 0)
  /\ UNCHANGED <<mounted, starts, turns>>

GeminiUnmount ==
  /\ variant = "gemini" /\ mounted
  /\ GeminiStop
  /\ mounted' = FALSE
  /\ Observe(Bump(stopStreak, 2), 0)
  /\ UNCHANGED <<starts, turns>>

GeminiStartSession ==
  /\ variant = "gemini" /\ mounted /\ ~isSessionActive
  /\ status' = "Yeu cau quyen truy cap microphone..."
  /\ startsMic' = startsMic + 1
  /\ Observe(0, 0)
  /\ UNCHANGED <<variant, difyOnly, mounted, isSessionActive, conversation,
                 audioStreamRef, audioContextRef, analyserRef,
                 volumeIntervalRef, liveStreams, recognitionRef, synthRef,
                 ephemeralUserMessageIdRef, recognizer, utterances, cancelled,
                 startsVoices, turns>>

GeminiMicGranted ==
  /\ variant = "gemini" /\ startsMic > 0
  /\ startsMic' = startsMic - 1
  /\ startsVoices' = startsVoices + 1
  /\ audioStreamRef' = TRUE
  /\ liveStreams' = liveStreams + 1
  /\ audioContextRef' = TRUE
  /\ analyserRef' = TRUE
  /\ volumeIntervalRef' = TRUE
  /\ status' = "Khoi tao nhan dien giong noi..."
  /\ synthRef' = TRUE
  /\ Observe(0, 0)
  /\ UNCHANGED <<variant, difyOnly, mounted, isSessionActive, conversation,
                 recognitionRef, ephemeralUserMessageIdRef, recognizer,
                 utterances, cancelled, turns>>

GeminiMicDenied ==
  /\ variant = "gemini" /\ startsMic > 0
  /\ startsMic' = startsMic - 1
  /\ GeminiStop
  /\ Observe(0, 0)
  /\ UNCHANGED <<mounted, startsVoices, turns>>

\* initializeSpeech returns; startSession starts the recognizer it created
GeminiSpeechInitDone ==
  /\ variant = "gemini" /\ startsVoices > 0
  /\ startsVoices' = startsVoices - 1
  /\ recognizer' = Append(recognizer, "starting")
  /\ recognitionRef' = Len(recognizer) + 1
  /\ isSessionActive' = TRUE
  /\ status' = "Phien hoat dong - Nhan de noi"
  /\ ObserveStart(0, 0, "idle")
  /\ UNCHANGED <<variant, difyOnly, mounted, conversation, audioStreamRef,
                 audioContextRef, analyserRef, volumeIntervalRef, liveStreams,
                 synthRef, ephemeralUserMessageIdRef, utterances, cancelled,
                 startsMic, turns>>

GeminiSpeechInitFail ==
  /\ variant = "gemini" /\ startsVoices > 0
  /\ startsVoices' = startsVoices - 1
  /\ GeminiStop
  /\ Observe(0, 0)
  /\ UNCHANGED <<mounted, startsMic, turns>>

\* --------------------------------------------- Gemini: recognizer events
geminiSession == <<variant, difyOnly, mounted, isSessionActive, audioStreamRef,
                   audioContextRef, analyserRef, volumeIntervalRef,
                   liveStreams, recognitionRef, synthRef, starts>>

GeminiOnStart(r) ==
  /\ variant = "gemini"
  /\ recognizer[r] = "starting"
  /\ recognizer' = [recognizer EXCEPT ![r] = "listening"]
  /\ status' = "Dang lang nghe tieng Viet..."
  /\ conversation' = CreateEphemeralConv(conversation, ephemeralUserMessageIdRef)
  /\ ephemeralUserMessageIdRef' =
       CreateEphemeralId(conversation, ephemeralUserMessageIdRef)
  /\ Observe(0, 0)
  /\ UNCHANGED <<geminiSession, utterances, cancelled, turns>>

GeminiOnEnd(r) ==
  /\ variant = "gemini"
  /\ recognizer[r] \in {"listening", "stopping", "ending"}
  /\ recognizer' = [recognizer EXCEPT ![r] = "idle"]
  /\ status' = "Phien hoat dong - Noi tieng Viet de bat dau"
  /\ Observe(0, 0)
  /\ UNCHANGED <<geminiSession, conversation, ephemeralUserMessageIdRef,
                 utterances, cancelled, turns>>

GeminiErrorMessage(err) ==
  IF err = "no-speech" THEN "Khong nghe thay giong noi. Vui long thu lai."
  ELSE IF err = "network" THEN "Loi mang. Kiem tra ket noi internet."
  ELSE "Loi: " \o err

GeminiOnError(r, err) ==
  /\ variant = "gemini"
  /\ recognizer[r] \in
       (IF err = "aborted" THEN {"starting", "listening", "stopping"}
        ELSE {"starting", "listening"})
  /\ recognizer' = [recognizer EXCEPT ![r] = "ending"]
  /\ status' = GeminiErrorMessage(err)
  /\ Observe(0, 0)
  /\ UNCHANGED <<geminiSession, conversation, ephemeralUserMessageIdRef,
                 utterances, cancelled, turns>>

\* handleUserSpeech(text) of the Gemini hook up to its await of the model
GeminiHandleUserSpeech(text, vol) ==
  /\ conversation' = UpdateEphemeral(conversation, ephemeralUserMessageIdRef,
                                     text, TRUE, "final")
  /\ ephemeralUserMessageIdRef' = 0
  /\ status' = "Dang xu ly voi Gemini AI..."
  /\ turns' = Append(turns,
                [assistantId |-> 0, query |-> text, accumulated |-> <<>>,
                 chunks |-> 0, phase |-> "waiting", kind |-> "speech",
                 userMsg |-> ephemeralUserMessageIdRef, volume |-> vol])

\* recognition.onresult of the Gemini hook: no noise filter; vol is the volume
\* its analyser shows at the event, which the handler does not read
GeminiOnResult(r, final, interim, vol) ==
  /\ variant = "gemini"
  /\ recognizer[r] \in {"listening", "stopping"}
  /\ IF final # <<>>
     THEN GeminiHandleUserSpeech(final, vol)
     ELSE IF interim # <<>>
     THEN /\ conversation' = UpdateEphemeral(conversation,
                               ephemeralUserMessageIdRef, interim, FALSE,
                               "speaking")
          /\ UNCHANGED <<ephemeralUserMessageIdRef, status, turns>>
     ELSE UNCHANGED <<conversation, ephemeralUserMessageIdRef, status, turns>>
  /\ Observe(0, 0)
  /\ UNCHANGED <<geminiSession, recognizer, utterances, cancelled>>

\* sendTextMessage(text) of the Gemini hook up to its await of the model
GeminiSendTextMessage(text) ==
  /\ variant = "gemini" /\ mounted
  /\ Trim(text) # <<>>
  /\ status' = "Dang xu ly tin nhan voi Gemini AI..."
  /\ conversation' = Append(conversation,
       [id |-> Len(conversation) + 1, role |-> "user", text |-> text,
        isFinal |-> TRUE, status |-> "final"])
  /\ turns' = Append(turns,
                [assistantId |-> 0, query |-> text, accumulated |-> <<>>,
                 chunks |-> 0, phase |-> "waiting", kind |-> "text",
                 userMsg |-> 0, volume |-> 0])
  /\ Observe(0, 0)
  /\ UNCHANGED <<geminiSession, ephemeralUserMessageIdRef, recognizer,
                 utterances, cancelled>>

\* an assistant message left open (used to test the checks of a failed turn)
AiMessageOpen(id, text) ==
  [id |-> id, role |-> "assistant", text |-> text, isFinal |-> FALSE,
   status |-> "absent"]

\* an assistant message of the Gemini hook: it has no status field
AiMessage(id, text) ==
  [id |-> id, role |-> "assistant", text |-> text, isFinal |-> TRUE,
   status |-> "absent"]

\* generateContent resolves with aiText: the rest of the try block
GeminiResponse(t, aiText) ==
  /\ variant = "gemini"
  /\ turns[t].phase = "waiting"
  /\ conversation' = Append(conversation, AiMessage(Len(conversation) + 1, aiText))
  /\ turns' = [turns EXCEPT ![t].assistantId = Len(conversation) + 1,
                            ![t].accumulated = aiText,
                            ![t].phase = IF synthRef THEN "queued" ELSE "done"]
  /\ utterances' = IF synthRef THEN utterances + 1 ELSE utterances
  /\ status' = IF turns[t].kind = "speech" THEN "Hoan thanh"
               ELSE IF synthRef THEN status ELSE "Tin nhan da xu ly"
  /\ Observe(0, 0)
  /\ UNCHANGED <<geminiSession, ephemeralUserMessageIdRef, recognizer,
                 cancelled>>

\* generateContent rejects: the catch block with its fallback message, which
\* only handleUserSpeech speaks
GeminiFailure(t) ==
  /\ variant = "gemini"
  /\ turns[t].phase = "waiting"
  /\ conversation' = Append(conversation,
                            AiMessage(Len(conversation) + 1, <<"fallback">>))
  /\ LET spoken == turns[t].kind = "speech" /\ synthRef IN
       /\ turns' = [turns EXCEPT ![t].assistantId = Len(conversation) + 1,
                                 ![t].phase = IF spoken THEN "fallback"
                                              ELSE "failed"]
       /\ utterances' = IF spoken THEN utterances + 1 ELSE utterances
  /\ status' = IF turns[t].kind = "speech" THEN "Loi xu ly"
               ELSE "Loi xu ly tin nhan"
  /\ Observe(0, 0)
  /\ UNCHANGED <<geminiSession, ephemeralUserMessageIdRef, recognizer,
                 cancelled>>

\* one utterance leaves the queue of speechSynthesis, played or cancelled
UtterLeaves ==
  \/ utterances > 0 /\ utterances' = utterances - 1 /\ UNCHANGED cancelled
  \/ cancelled > 0 /\ cancelled' = cancelled - 1 /\ UNCHANGED utterances

\* utterance.onstart of an answer
GeminiUtterStart(t) ==
  /\ variant = "gemini"
  /\ turns[t].phase = "queued" /\ utterances > 0
  /\ turns' = [turns EXCEPT ![t].phase = "playing"]
  /\ status' = "Dang noi voi giong mac dinh..."
  /\ Observe(0, 0)
  /\ UNCHANGED <<geminiSession, conversation, ephemeralUserMessageIdRef,
                 recognizer, utterances, cancelled>>

\* utterance.onend of an answer
GeminiUtterEnd(t) ==
  /\ variant = "gemini"
  /\ turns[t].phase \in {"queued", "playing"}
  /\ UtterLeaves
  /\ turns' = [turns EXCEPT ![t].phase = "done"]
  /\ status' = IF turns[t].kind = "speech"
               THEN "Phien hoat dong - Noi tieng Viet de tiep tuc"
               ELSE "Tin nhan da xu ly"
  /\ Observe(0, 0)
  /\ UNCHANGED <<geminiSession, conversation, ephemeralUserMessageIdRef,
                 recognizer>>

\* utterance.onerror of an answer
GeminiUtterError(t) ==
  /\ variant = "gemini"
  /\ turns[t].phase \in {"queued", "playing"}
  /\ UtterLeaves
  /\ turns' = [turns EXCEPT ![t].phase = "done"]
  /\ status' = IF turns[t].kind = "speech" THEN "Loi phat am thanh"
               ELSE "Loi phat am thanh tin nhan"
  /\ Observe(0, 0)
  /\ UNCHANGED <<geminiSession, conversation, ephemeralUserMessageIdRef,
                 recognizer>>

\* the fallback utterance has no handlers: it leaves the queue silently
GeminiFallbackSpoken(t) ==
  /\ variant = "gemini"
  /\ turns[t].phase = "fallback"
  /\ UtterLeaves
  /\ turns' = [turns EXCEPT ![t].phase = "failed"]
  /\ Observe(0, 0)
  /\ UNCHANGED <<geminiSession, status, conversation,
                 ephemeralUserMessageIdRef, recognizer>>

\* ================================================================ Spec
\* no streamDify call is modelled at wire level
StreamIdle ==
  /\ sseLines = <<>> /\ lastTerminated = TRUE
  /\ wire = <<>> /\ buffer = <<>> /\ full = <<>> /\ accumulated = <<>>
  /\ streamConversationId = 0 /\ callbacks = <<>>
  /\ streamPhase = "idle"
  /\ placeholder = NewPlaceholder(1)
  /\ shown = <<>>

OrchInit ==
  /\ variant \in {"dify", "gemini"}
  \* only the Dify hook has options; its defaults stand for the Gemini hook
  /\ fast \in (IF variant = "dify" THEN BOOLEAN ELSE {TRUE})
  /\ camSpeaking \in (IF variant = "dify" THEN BOOLEAN ELSE {TRUE})
  /\ mounted = TRUE
  /\ status = ""
  /\ isSessionActive = FALSE
  /\ conversation = <<>>
  /\ conversationId = 0
  /\ handlerConversationId = 0
  /\ autoStarted = FALSE /\ idleElapsed = FALSE /\ userStarted = FALSE
  /\ audioStreamRef = FALSE /\ audioContextRef = FALSE /\ analyserRef = FALSE
  /\ volumeIntervalRef = FALSE /\ volumeRafRef = FALSE
  /\ recognitionRef = 0 /\ synthRef = FALSE
  /\ isSessionActiveRef = FALSE /\ recognitionActiveRef = FALSE
  /\ consecutiveNoSpeechRef = 0
  /\ restartTimeoutRef = FALSE /\ ttsInProgressRef = FALSE
  /\ pendingRestartRef = FALSE
  /\ ephemeralUserMessageIdRef = 0
  /\ recognizer = <<>>
  /\ timerArmed = FALSE /\ timerDelay = 0 /\ orphanTimers = 0
  /\ timerReplaced = FALSE
  /\ utterances = 0 /\ cancelled = 0 /\ liveStreams = 0
  /\ startsMic = 0 /\ startsVoices = 0
  /\ turns = <<>>
  /\ stopStreak = 0 /\ silentRun = 0 /\ lastStart = "none"

\* the detector as mounted: refs at their initial values
\* the effect has not run: no stream, no FaceMesh, no timer
CameraIdle ==
  /\ effects = <<>>
  /\ streamRef = 0 /\ faceMeshRef = 0 /\ frameTimerRef = 0
  /\ armedTimers = {} /\ liveTracks = {}

VisualInit ==
  /\ baselineRef = -1 /\ baselineMouthWidthRef = -1
  /\ baselineEyeWidthRef = -1
  /\ warmupBufferRef = <<>> /\ warmupMouthWidthRef = <<>>
  /\ warmupEyeWidthRef = <<>>
  /\ speakingRef = FALSE /\ consecSpeakingRef = 0 /\ consecSilentRef = 0
  /\ prevCenterRef = -1 /\ smoothRatioRef = 0
  /\ isSpeaking = FALSE
  /\ framesSeen = 0 /\ lowRun = 0 /\ speakRun = 0
  /\ CameraIdle

\* flow and logger as constructed with nothing saved in localStorage
LogIdle ==
  /\ flowEnabled = TRUE /\ flowEvents = <<>> /\ flowPushed = 0
  /\ logs = <<>> /\ logSaved = 0 /\ logAdded = 0

\* no preferred voice, no voice installed, getSelectedVoice not called
VoiceIdle == voice = 0 /\ voices = <<>> /\ selectedVoice = -1

Init == OrchInit /\ StreamIdle /\ VisualInit /\ VoiceIdle /\ LogIdle

Texts == Fragments \cup {<<>>}

\* interim transcripts in the runs of Spec: none, or one that the noise filter
\* drops at volume 5 and shows at volume 50
Interims == { <<>>, <<",">> }

GeminiNext ==
  \/ SessionsStarted < MaxSessions /\ GeminiStartSession
  \/ GeminiMicGranted
  \/ GeminiMicDenied
  \/ GeminiSpeechInitDone
  \/ GeminiSpeechInitFail
  \/ GeminiStopSession
  \/ GeminiUnmount
  \/ \E r \in DOMAIN recognizer : GeminiOnStart(r)
  \/ \E r \in DOMAIN recognizer : GeminiOnEnd(r)
  \/ \E r \in DOMAIN recognizer, err \in ErrorKinds : GeminiOnError(r, err)
  \/ \E r \in DOMAIN recognizer, final \in Texts, interim \in Interims,
        vol \in Volumes :
        \* onresult reads the interim transcript only when the final one is
        \* empty
        /\ final # <<>> => interim = <<>>
        /\ final # <<>> => Len(turns) < MaxTurns
        /\ GeminiOnResult(r, final, interim, vol)
  \/ \E text \in TypedTexts :
        Len(turns) < MaxTurns /\ GeminiSendTextMessage(text)
  \/ \E t \in DOMAIN turns, aiText \in Chunks : GeminiResponse(t, aiText)
  \/ \E t \in DOMAIN turns : GeminiFailure(t)
  \/ \E t \in DOMAIN turns : GeminiUtterStart(t)
  \/ \E t \in DOMAIN turns : GeminiUtterEnd(t)
  \/ \E t \in DOMAIN turns : GeminiUtterError(t)
  \/ \E t \in DOMAIN turns : GeminiFallbackSpoken(t)

DifyNext ==
  \/ SessionsStarted < MaxSessions /\ DifyStartSession
  \/ DifyMicGranted
  \/ DifyMicDenied
  \/ DifySpeechInitDone
  \/ DifySpeechInitFail
  \/ DifyStopSession
  \/ DifyUnmount
  \/ DifyCamChange
  \/ DifyRestartTimerFire
  \/ \E r \in DOMAIN recognizer : DifyOnStart(r)
  \/ \E r \in DOMAIN recognizer : DifyOnEnd(r)
  \/ \E r \in DOMAIN recognizer, err \in ErrorKinds : DifyOnError(r, err)
  \/ \E r \in DOMAIN recognizer, final \in Texts, interim \in Interims,
        vol \in Volumes :
        \* onresult reads the interim transcript only when the final one is
        \* empty
        /\ final # <<>> => interim = <<>>
        /\ final # <<>> => Len(turns) < MaxTurns
        /\ DifyOnResult(r, final, interim, vol)
  \/ \E t \in DOMAIN turns, chunk \in Chunks : DifyOnChunk(t, chunk)
  \/ \E t \in DOMAIN turns : DifyOnDone(t)
  \/ \E t \in DOMAIN turns : DifyOnStreamError(t)
  \/ DifyUtterEnd
  \/ DifyUtterError
  \/ \E text \in TypedTexts :
        Len(turns) < MaxTurns /\ DifySendTextMessage(text)

Next == DifyNext \/ GeminiNext

Spec == Init /\ [][Next]_vars

\* ------------------------------------------------- a conversation of turns
\* the Dify hook with its default options in one session without recognizer
\* errors, in which the user speaks up to MaxTalkTurns times
TalkInit == Init /\ variant = "dify" /\ fast /\ camSpeaking

TalkNext ==
  \/ SessionsStarted < MaxSessions /\ DifyStartSession
  \/ DifyMicGranted
  \/ DifySpeechInitDone
  \/ DifyStopSession
  \/ DifyRestartTimerFire
  \/ \E r \in DOMAIN recognizer : DifyOnStart(r)
  \/ \E r \in DOMAIN recognizer : DifyOnEnd(r)
  \/ \E r \in DOMAIN recognizer, final \in Texts, interim \in Texts,
        vol \in Volumes :
        /\ final # <<>> => Len(turns) < MaxTalkTurns
        /\ DifyOnResult(r, final, interim, vol)
  \/ \E t \in DOMAIN turns, chunk \in Chunks : DifyOnChunk(t, chunk)
  \/ \E t \in DOMAIN turns : DifyOnDone(t)
  \/ DifyUtterEnd

SpecTalk == TalkInit /\ [][TalkNext]_vars

\* ------------------------------------------- resuming recognition after TTS
\* the Dify hook with its default options in one session of one spoken turn;
\* the browser runs a timeout that stays pending, and ends a recognizer that
\* was stopped or has failed
ResumeNext ==
  \/ SessionsStarted < MaxSessions /\ DifyStartSession
  \/ DifyMicGranted
  \/ DifySpeechInitDone
  \/ DifyStopSession
  \/ DifyRestartTimerFire
  \/ \E r \in DOMAIN recognizer : DifyOnStart(r)
  \/ \E r \in DOMAIN recognizer : DifyOnEnd(r)
  \/ \E r \in DOMAIN recognizer, err \in ErrorKinds : DifyOnError(r, err)
  \/ \E r \in DOMAIN recognizer, final \in Texts, interim \in Texts,
        vol \in Volumes :
        /\ final # <<>> => Len(turns) < MaxTurns
        /\ DifyOnResult(r, final, interim, vol)
  \/ \E t \in DOMAIN turns, chunk \in Chunks : DifyOnChunk(t, chunk)
  \/ \E t \in DOMAIN turns : DifyOnDone(t)
  \/ DifyUtterEnd
  \/ DifyUtterError

\* a recognizer that was stopped or has reported an error fires its end event
RecognizerEnds ==
  \E r \in DOMAIN recognizer :
    recognizer[r] \in {"stopping", "ending"} /\ DifyOnEnd(r)

SpecResume ==
  /\ TalkInit /\ [][ResumeNext]_vars
  /\ WF_vars(DifyRestartTimerFire)
  /\ WF_vars(RecognizerEnds)

\* ----------------------------------------------- starting more than once
\* the Dify hook with its default options, no turn and no failing start:
\* startSession may be called again while a call is in flight or after a stop
RestartNext ==
  \/ SessionsStarted < MaxStarts /\ DifyStartSession
  \/ DifyMicGranted
  \/ DifySpeechInitDone
  \/ DifyStopSession
  \/ DifyUnmount
  \/ DifyRestartTimerFire
  \/ \E r \in DOMAIN recognizer : DifyOnStart(r)
  \/ \E r \in DOMAIN recognizer : DifyOnEnd(r)
  \/ \E r \in DOMAIN recognizer, err \in ErrorKinds : DifyOnError(r, err)

SpecRestart == TalkInit /\ [][RestartNext]_vars

\* ------------------------------------------------ one session after another
\* the Dify hook with its default options: up to MaxStarts sessions, one at a
\* time, in which the user types up to MaxTalkTurns messages
CarryNext ==
  \/ /\ SessionsStarted < MaxStarts /\ startsMic + startsVoices = 0
     /\ DifyStartSession
  \/ DifyMicGranted
  \/ DifySpeechInitDone
  \/ DifyStopSession
  \/ \E text \in TypedTexts :
        Len(turns) < MaxTalkTurns /\ DifySendTextMessage(text)
  \/ \E t \in DOMAIN turns, chunk \in Chunks : DifyOnChunk(t, chunk)
  \/ \E t \in DOMAIN turns : DifyOnDone(t)
  \/ \E t \in DOMAIN turns : DifyOnStreamError(t)
  \/ DifyUtterEnd

SpecCarry == TalkInit /\ [][CarryNext]_vars

\* ------------------------------------------------- the page around the hook
\* the effect of the page that starts a session when the detector reports
\* speaking (isSpeaking is true only once the detector is ready)
PageAutoStart ==
  /\ camSpeaking
  /\ StartSessionCalled
  /\ autoStarted' = TRUE
  /\ idleElapsed' = FALSE
  /\ userStarted' = FALSE

\* handleStartStopClick: isSessionActive ? stopSession() : startSession()
PageClick ==
  IF isSessionActive
  THEN StopSessionCalled /\ UNCHANGED pageVars
  ELSE StartSessionCalled /\ userStarted' = TRUE
       /\ UNCHANGED <<autoStarted, idleElapsed>>

\* the interval of the page fires once the idle period has passed
PageIdleTick ==
  /\ isSessionActive
  /\ autoStarted /\ idleElapsed
  /\ StopSessionCalled
  /\ autoStarted' = FALSE
  /\ UNCHANGED <<idleElapsed, userStarted>>

\* AUTO_IDLE_MS pass without a render in which the detector reports speaking
PageIdleElapses ==
  /\ variant = "dify" /\ mounted /\ ~camSpeaking /\ ~idleElapsed
  /\ idleElapsed' = TRUE
  /\ UNCHANGED <<autoStarted, userStarted, cfg, token, camSpeaking, mounted,
                 status, isSessionActive, conversation, media, recognitionRef,
                 synthRef, isSessionActiveRef, recognitionActiveRef,
                 consecutiveNoSpeechRef, timer, ttsInProgressRef,
                 ephemeralUserMessageIdRef, recognizer, utterances, cancelled,
                 starts, turns, stopStreak, silentRun, lastStart>>

\* the detector reports another isSpeaking: the effects of the hook and of the
\* page follow (lastSpeakingRef.current = Date.now() when speaking)
PageCamChange ==
  /\ CamSpeakingChanged
  /\ idleElapsed' = (idleElapsed /\ camSpeaking)
  /\ UNCHANGED <<autoStarted, userStarted>>

\* the page with its hook: sessions started one at a time by the detector or
\* by a click
PageNext ==
  \/ /\ SessionsStarted < MaxStarts /\ startsMic + startsVoices = 0
     /\ PageAutoStart
  \/ /\ isSessionActive \/ (SessionsStarted < MaxStarts
                             /\ startsMic + startsVoices = 0)
     /\ PageClick
  \/ PageIdleTick
  \/ PageIdleElapses
  \/ PageCamChange
  \/ DifyMicGranted
  \/ DifySpeechInitDone

SpecPage == TalkInit /\ [][PageNext]_vars

\* ======================================= streamDify at the level of the wire
LF == "\n"
DataPrefix == <<"d", "a", "t", "a", ":", " ">>
DoneSentinel == <<"[", "D", "O", "N", "E", "]">>
AnswerChars == {"x", "y"}

\* the lines a server sends: {"answer":"x"}, {"answer":"y"},
\* {"conversation_id":"c","answer":"x"}, {"event":"message_end"}, [DONE],
\* {"error":{"message":"m"}} and a payload cut short, each as a data: record,
\* and the empty line
LineKinds == {"x", "y", "cx", "end", "done", "err", "bad", "blank"}

EncodeLine(kind) ==
  IF kind = "blank" THEN <<>>
  ELSE IF kind = "done" THEN DataPrefix \o DoneSentinel
  ELSE IF kind = "end" THEN DataPrefix \o <<"{", "E", "}">>
  ELSE IF kind = "err" THEN DataPrefix \o <<"{", "!", "}">>
  ELSE IF kind = "bad" THEN DataPrefix \o <<"{", "x">>
  ELSE IF kind = "cx" THEN DataPrefix \o <<"{", "C", "x", "}">>
  ELSE DataPrefix \o <<"{", kind, "}">>

\* the response body: every line followed by a line feed, the last one only
\* when terminated
RECURSIVE EncodeBody(_, _)
EncodeBody(lines, terminated) ==
  IF lines = <<>> THEN <<>>
  ELSE IF Len(lines) = 1
  THEN EncodeLine(lines[1]) \o (IF terminated THEN <<LF>> ELSE <<>>)
  ELSE EncodeLine(lines[1]) \o <<LF>> \o EncodeBody(Tail(lines), terminated)

\* s.indexOf(c) + 1, 0 when absent
RECURSIVE IndexOf(_, _)
IndexOf(s, c) ==
  IF s = <<>> THEN 0
  ELSE IF Head(s) = c THEN 1
  ELSE LET i == IndexOf(Tail(s), c) IN IF i = 0 THEN 0 ELSE i + 1

StartsWith(s, p) == Len(s) >= Len(p) /\ SubSeq(s, 1, Len(p)) = p

\* a parser that accepts a payload cut short (used to test the checks of
\* malformed records)
ParseJsonLax(p) ==
  LET c == IF Len(p) >= 2 THEN p[2] ELSE "" IN
  [ok |-> Len(p) >= 2 /\ p[1] = "{",
   conversation_id |-> 0,
   answer |-> IF c \in AnswerChars THEN <<c>> ELSE <<>>,
   event |-> IF c = "E" THEN "message_end" ELSE "message",
   error |-> c = "!"]

\* JSON.parse of a payload, for the objects above: "{", then "C" for a
\* conversation_id field, then the characters of the answer, then "E" for the
\* message_end event or "!" for an error field, then "}"; anything else does
\* not parse
ParseJson(p) ==
  LET inner == IF Len(p) >= 2 THEN SubSeq(p, 2, Len(p) - 1) ELSE <<>>
      cid == inner # <<>> /\ Head(inner) = "C"
      body == IF cid THEN Tail(inner) ELSE inner
      letters == {i \in DOMAIN body : body[i] \in AnswerChars}
      n == Cardinality(letters)
  IN [ok |-> /\ Len(p) >= 2 /\ p[1] = "{" /\ p[Len(p)] = "}"
             /\ letters = 1..n
             /\ Len(body) <= n + 1
             /\ (Len(body) = n + 1 => body[n + 1] \in {"E", "!"}),
      conversation_id |-> IF cid THEN 1 ELSE 0,
      answer |-> SubSeq(body, 1, n),
      event |-> IF Len(body) = n + 1 /\ body[Len(body)] = "E"
                THEN "message_end" ELSE "message",
      error |-> Len(body) = n + 1 /\ body[Len(body)] = "!"]

\* the locals of streamDify and what its handlers have written
StreamState ==
  [buffer |-> buffer, full |-> full, conversationId |-> streamConversationId,
   callbacks |-> callbacks, accumulated |-> accumulated,
   phase |-> streamPhase, placeholder |-> placeholder, shown |-> shown]

\* json.answer is not empty: full += json.answer; handlers.onChunk(json.answer)
TakeAnswer(st, answer) ==
  IF answer = <<>> THEN st
  ELSE LET text == OnChunkText(st.accumulated, answer) IN
       [st EXCEPT !.full = st.full \o answer,
                  !.callbacks = Append(@, [type |-> "chunk", text |-> answer]),
                  !.accumulated = text,
                  !.placeholder = [@ EXCEPT !.text = text],
                  !.shown = Append(@, text)]

\* a stream that reports its completion twice (used to test the checks of
\* the terminal callback)
DoneTwice(st) ==
  [st EXCEPT !.phase = "done",
             !.callbacks = @ \o << [type |-> "done", text |-> st.full,
                                    conversationId |-> st.conversationId],
                                   [type |-> "done", text |-> st.full,
                                    conversationId |-> st.conversationId] >>,
             !.placeholder = [@ EXCEPT !.text = st.full, !.isFinal = TRUE,
                                       !.status = "final"]]

\* handlers.onDone({text: full, conversationId})
Done(st) ==
  [st EXCEPT !.phase = "done",
             !.callbacks = Append(@, [type |-> "done", text |-> st.full,
                                      conversationId |-> st.conversationId]),
             !.placeholder = [@ EXCEPT !.text = st.full, !.isFinal = TRUE,
                                       !.status = "final"]]

\* if (json.conversation_id) conversationId = json.conversation_id
Adopt(st, cid) == IF cid # 0 THEN [st EXCEPT !.conversationId = cid] ELSE st

\* the inner loop of streamDify: every complete line of the buffer
RECURSIVE Drain(_)
Drain(st) ==
  LET idx == IndexOf(st.buffer, LF) IN
  IF idx = 0 THEN st
  ELSE
    LET line == Trim(SubSeq(st.buffer, 1, idx - 1))
        rest == [st EXCEPT !.buffer = SubSeq(st.buffer, idx + 1, Len(st.buffer))]
        jsonPayload ==
          IF StartsWith(line, DataPrefix)
          THEN Trim(SubSeq(line, Len(DataPrefix) + 1, Len(line)))
          ELSE IF StartsWith(line, <<"{">>) THEN line
          ELSE <<>>
        json == ParseJson(jsonPayload)
    IN IF line = <<>> \/ jsonPayload = <<>> THEN Drain(rest)
       ELSE IF jsonPayload = DoneSentinel THEN Done(rest)
       ELSE IF ~json.ok \/ json.error THEN Drain(rest)
       ELSE LET seen == Adopt(rest, json.conversation_id) IN
            IF json.event = "message_end"
            THEN Done(TakeAnswer(seen, json.answer))
            ELSE Drain(TakeAnswer(seen, json.answer))

\* after the last read: the residual of the buffer, then handlers.onDone
Flush(st) ==
  LET residual == Trim(st.buffer)
      json == ParseJson(SubSeq(residual, Len(DataPrefix) + 1, Len(residual)))
  IN Done(IF StartsWith(residual, DataPrefix) /\ json.ok
          THEN TakeAnswer(st, json.answer)
          ELSE st)

StreamSet(st) ==
  /\ buffer' = st.buffer
  /\ full' = st.full
  /\ streamConversationId' = st.conversationId
  /\ callbacks' = st.callbacks
  /\ accumulated' = st.accumulated
  /\ streamPhase' = st.phase
  /\ placeholder' = st.placeholder
  /\ shown' = st.shown

\* the variables of the session hooks and of the detector
orchVars == <<variant, fast, camSpeaking, mounted, status, isSessionActive,
              conversation, media, recognitionRef, synthRef,
              isSessionActiveRef, recognitionActiveRef,
              consecutiveNoSpeechRef, timer, ttsInProgressRef,
              ephemeralUserMessageIdRef, recognizer, utterances, cancelled,
              starts, turns, token, voiceVars, pageVars, stopStreak, silentRun,
              lastStart, visualVars, logVars>>

\* reader.read() resolves with the next n characters of the body
StreamRead(n) ==
  /\ streamPhase = "reading"
  /\ n <= Len(wire)
  /\ wire' = SubSeq(wire, n + 1, Len(wire))
  /\ StreamSet(Drain([StreamState EXCEPT
                        !.buffer = buffer \o SubSeq(wire, 1, n)]))
  /\ UNCHANGED <<sseLines, lastTerminated, orchVars>>

\* reader.read() resolves with done
StreamEnd ==
  /\ streamPhase = "reading"
  /\ wire = <<>>
  /\ StreamSet(Flush(StreamState))
  /\ UNCHANGED <<sseLines, lastTerminated, wire, orchVars>>

\* fetch rejects or its response is not ok, or reader.read() rejects: the
\* catch block calls handlers.onError
StreamFail ==
  /\ streamPhase \in {"fetching", "reading"}
  /\ streamPhase' = "error"
  /\ callbacks' = Append(callbacks, [type |-> "error"])
  /\ placeholder' = [placeholder EXCEPT !.text = <<"(Loi: ", "failed", ")">>,
                                        !.isFinal = TRUE]
  /\ UNCHANGED <<sseLines, lastTerminated, wire, buffer, full,
                 streamConversationId, accumulated, shown, orchVars>>

RECURSIVE SeqsUpTo(_, _)
SeqsUpTo(S, n) ==
  IF n = 0 THEN {<<>>}
  ELSE LET shorter == SeqsUpTo(S, n - 1)
       IN shorter \cup {Append(q, x) : q \in shorter, x \in S}

\* the bodies a response can carry
Bodies == SeqsUpTo(LineKinds, MaxLines)

StreamInit ==
  /\ OrchInit /\ variant = "dify" /\ fast /\ camSpeaking
  /\ VisualInit /\ VoiceIdle /\ LogIdle
  /\ sseLines \in Bodies
  /\ lastTerminated \in BOOLEAN
  /\ wire = EncodeBody(sseLines, lastTerminated)
  /\ buffer = <<>> /\ full = <<>> /\ accumulated = <<>>
  /\ streamConversationId = 0 /\ callbacks = <<>>
  /\ streamPhase = "reading"
  /\ placeholder = NewPlaceholder(1)
  /\ shown = <<>>

StreamNext ==
  \/ \E n \in 1..MaxRead : StreamRead(n)
  \/ StreamEnd
  \/ StreamFail

SpecStream == StreamInit /\ [][StreamNext]_vars

\* ------------------------------------ one call of streamDify from its fetch
\* streamDify awaits fetch
FetchInit ==
  /\ OrchInit /\ variant = "dify" /\ fast /\ camSpeaking
  /\ VisualInit /\ VoiceIdle /\ LogIdle
  /\ sseLines = <<>> /\ lastTerminated = TRUE /\ wire = <<>>
  /\ buffer = <<>> /\ full = <<>> /\ accumulated = <<>>
  /\ streamConversationId = 0 /\ callbacks = <<>>
  /\ streamPhase = "fetching"
  /\ placeholder = NewPlaceholder(1)
  /\ shown = <<>>

\* fetch resolves with an ok response whose body will carry the lines
StreamOpen(lines, terminated) ==
  /\ streamPhase = "fetching"
  /\ sseLines' = lines
  /\ lastTerminated' = terminated
  /\ wire' = EncodeBody(lines, terminated)
  /\ streamPhase' = "reading"
  /\ UNCHANGED <<buffer, full, streamConversationId, callbacks, accumulated,
                 placeholder, shown, orchVars>>

FetchNext ==
  \/ \E lines \in Bodies, terminated \in BOOLEAN :
        StreamOpen(lines, terminated)
  \/ \E n \in 1..MaxRead : StreamRead(n)
  \/ StreamEnd
  \/ StreamFail

\* a pending fetch fails unless it resolves, and every reader.read() settles:
\* the body delivers characters, ends, or fails
StreamSettles ==
  \/ StreamFail
  \/ StreamEnd
  \/ \E n \in 1..MaxRead : StreamRead(n)

SpecFetch == FetchInit /\ [][FetchNext]_vars /\ WF_vars(StreamSettles)

\* ===================================================== getSelectedVoice
\* the voices a browser can have installed: voiceURI, lang, name
InstalledVoices ==
  [voiceURI : {1, 2},
   lang : {<<"v", "i", "-", "V", "N">>, <<"e", "n">>},
   name : {<<"F", "e", "m", "a", "l", "e">>, <<"f", "e", "m", "a", "l", "e">>,
           <<"m", "a", "l", "e">>}]

\* String.prototype.includes
Includes(str, sub) ==
  \E i \in 1..(Len(str) - Len(sub) + 1) : SubSeq(str, i, i + Len(sub) - 1) = sub

\* Array.prototype.find over the indexes that satisfy the test, 0 = undefined
Find(S) == IF S = {} THEN 0 ELSE CHOOSE i \in S : \A j \in S : i <= j

Vi == <<"v", "i">>
Female == <<"f", "e", "m", "a", "l", "e">>

findVoiceByURI(synth, uri, list) ==
  IF ~synth THEN 0 ELSE Find({i \in DOMAIN list : list[i].voiceURI = uri})

\* a selector that takes a voice of the locale before looking at the names
\* (used to test the checks of the order)
getSelectedVoiceLocaleFirst(synth, pref, list) ==
  IF ~synth THEN 0
  ELSE LET v == IF pref # 0 THEN findVoiceByURI(synth, pref, list) ELSE 0
           a == Find({i \in DOMAIN list : StartsWith(list[i].lang, Vi)})
           b == Find({i \in DOMAIN list :
                       Includes(ToLowerCase(list[i].name), Female)})
       IN IF v # 0 THEN v
          ELSE IF a # 0 THEN a
          ELSE IF b # 0 THEN b
          ELSE IF list # <<>> THEN 1 ELSE 0

\* getSelectedVoice of the Dify hook
getSelectedVoice(synth, pref, list) ==
  IF ~synth THEN 0
  ELSE LET v == IF pref # 0 THEN findVoiceByURI(synth, pref, list) ELSE 0
           a == Find({i \in DOMAIN list :
                       /\ StartsWith(list[i].lang, Vi)
                       /\ Includes(ToLowerCase(list[i].name), Female)})
           b == Find({i \in DOMAIN list : StartsWith(list[i].lang, Vi)})
           c == Find({i \in DOMAIN list :
                       Includes(ToLowerCase(list[i].name), Female)})
       IN IF v # 0 THEN v
          ELSE IF a # 0 THEN a
          ELSE IF b # 0 THEN b
          ELSE IF c # 0 THEN c
          ELSE IF list # <<>> THEN 1 ELSE 0

\* getSelectedVoice of the Gemini hook: vietnameseVoice || null
GeminiGetSelectedVoice(synth, pref, list) ==
  IF ~synth THEN 0
  ELSE LET selected == IF pref # 0 THEN findVoiceByURI(synth, pref, list) ELSE 0
           vietnameseVoice ==
             LET a == Find({i \in DOMAIN list :
                             /\ StartsWith(list[i].lang, Vi)
                             /\ Includes(ToLowerCase(list[i].name), Female)})
                 b == Find({i \in DOMAIN list : StartsWith(list[i].lang, Vi)})
                 c == Find({i \in DOMAIN list :
                             Includes(ToLowerCase(list[i].name), Female)})
             IN IF a # 0 THEN a ELSE IF b # 0 THEN b ELSE IF c # 0 THEN c
                ELSE IF list # <<>> THEN 1 ELSE 0
       IN IF selected # 0 THEN selected ELSE vietnameseVoice

\* speak() asks for the voice of its utterance
SelectVoice(v) ==
  /\ selectedVoice' = v
  /\ UNCHANGED <<variant, fast, camSpeaking, mounted, status, isSessionActive,
                 conversation, token, voice, voices, media, recognitionRef,
                 synthRef, isSessionActiveRef, recognitionActiveRef,
                 consecutiveNoSpeechRef, timer, ttsInProgressRef,
                 ephemeralUserMessageIdRef, recognizer, utterances, cancelled,
                 starts, turns, stopStreak, silentRun, lastStart, pageVars,
                 streamVars, visualVars, logVars>>

DifySelectVoice ==
  variant = "dify" /\ SelectVoice(getSelectedVoice(synthRef, voice, voices))

GeminiSelectVoice ==
  variant = "gemini"
    /\ SelectVoice(GeminiGetSelectedVoice(synthRef, voice, voices))

\* either hook with any preference and any installed voices
VoiceInit ==
  /\ OrchInit /\ fast /\ camSpeaking
  /\ StreamIdle /\ VisualInit /\ LogIdle
  /\ voice \in 0..3
  /\ voices \in SeqsUpTo(InstalledVoices, MaxVoices)
  /\ selectedVoice = -1

VoiceNext ==
  \/ SessionsStarted < MaxSessions /\ DifyStartSession
  \/ DifyMicGranted
  \/ DifySelectVoice
  \/ SessionsStarted < MaxSessions /\ GeminiStartSession
  \/ GeminiMicGranted
  \/ GeminiSelectVoice

SpecVoice == VoiceInit /\ [][VoiceNext]_vars

\* ================================== the visual speech detector: handleResults
\* Lengths are integers (landmark coordinates in 1/10000 of the image width),
\* ratios are in 1/10000, factors in 1/1000; products are divided rounding down.
thresholdMultiplier == 16     \* 1.6, in tenths
releaseMultiplier == 13       \* 1.3, in tenths
minFramesSpeaking == 3
minFramesSilent == 5
SmoothAlpha == 65             \* alpha = 0.65, in percent
BaselineEma == 2              \* ema = 0.02, in percent
SpeakMargin == 150            \* (ratio - base) > 0.015
WidthShrink == 850            \* widthFactor < 0.85
TightenMax == 100             \* Math.min(0.1, ...)
MotionLimit == 35             \* motion > 0.035
MotionFactor == 105           \* adjustedSpeakThreshold * 1.05, in percent

\* the faces a frame may show: mouth closed, mouth open, and the head turned
\* aside (narrower, displaced) with the mouth half open
FrameRest ==
  [vertical |-> 100, mouthWidth |-> 1000, eyeWidth |-> 2000, centerX |-> 5000]
FrameOpen ==
  [vertical |-> 300, mouthWidth |-> 1000, eyeWidth |-> 2000, centerX |-> 5000]
FrameTurned ==
  [vertical |-> 120, mouthWidth |-> 800, eyeWidth |-> 1600, centerX |-> 5100]
Faces == {FrameRest, FrameOpen, FrameTurned}

RECURSIVE Sum(_)
Sum(arr) == IF arr = <<>> THEN 0 ELSE Head(arr) + Sum(Tail(arr))
Avg(arr) == Sum(arr) \div Len(arr)
Abs(x) == IF x < 0 THEN 0 - x ELSE x
Ema(old, new) == ((100 - BaselineEma) * old + BaselineEma * new) \div 100

\* what one frame computes after the baseline is locked
FrameValues(f) ==
  LET rawRatio == (f.vertical * 10000) \div f.mouthWidth
      ratio == IF smoothRatioRef = 0 THEN rawRatio
               ELSE (SmoothAlpha * rawRatio
                     + (100 - SmoothAlpha) * smoothRatioRef) \div 100
      base == IF speakingRef THEN baselineRef ELSE Ema(baselineRef, rawRatio)
      baseMouth == IF speakingRef \/ baselineMouthWidthRef = -1
                   THEN baselineMouthWidthRef
                   ELSE Ema(baselineMouthWidthRef, f.mouthWidth)
      baseEye == IF speakingRef \/ baselineEyeWidthRef = -1
                 THEN baselineEyeWidthRef
                 ELSE Ema(baselineEyeWidthRef, f.eyeWidth)
      speakThreshold == (base * thresholdMultiplier) \div 10
      releaseThreshold == (base * releaseMultiplier) \div 10
      mouthWidthFactor == IF baseMouth > 0
                          THEN (f.mouthWidth * 1000) \div baseMouth ELSE 1000
      eyeWidthFactor == IF baseEye > 0
                        THEN (f.eyeWidth * 1000) \div baseEye ELSE 1000
      widthFactor == Min(mouthWidthFactor, eyeWidthFactor)
      tighten == IF widthFactor < WidthShrink
                 THEN Min(TightenMax, (WidthShrink - widthFactor) \div 2)
                 ELSE 0
      adjustedSpeakThreshold == (speakThreshold * (1000 + tighten)) \div 1000
      moved == IF prevCenterRef # -1 THEN Abs(f.centerX - prevCenterRef) ELSE 0
      motion == (moved * 1000) \div (IF f.eyeWidth > 0 THEN f.eyeWidth ELSE 1)
      motionHigh == motion > MotionLimit
  IN [rawRatio |-> rawRatio, ratio |-> ratio, base |-> base,
      baseMouth |-> baseMouth, baseEye |-> baseEye,
      releaseThreshold |-> releaseThreshold,
      currentlySpeaking |->
        /\ ratio > (IF motionHigh
                    THEN (adjustedSpeakThreshold * MotionFactor) \div 100
                    ELSE adjustedSpeakThreshold)
        /\ ratio - base > SpeakMargin]

\* handleResults for a frame with a face, while the baseline is null
WarmupFrame(f) ==
  LET v == FrameValues(f)
      buf == Append(warmupBufferRef, v.rawRatio)
      bufMouth == Append(warmupMouthWidthRef, f.mouthWidth)
      bufEye == Append(warmupEyeWidthRef, f.eyeWidth)
      lock == Len(buf) >= WarmupFrames
  IN /\ smoothRatioRef' = v.ratio
     /\ warmupBufferRef' = buf
     /\ warmupMouthWidthRef' = bufMouth
     /\ warmupEyeWidthRef' = bufEye
     /\ baselineRef' = IF lock THEN Avg(buf) ELSE baselineRef
     /\ baselineMouthWidthRef' = IF lock THEN Avg(bufMouth)
                                 ELSE baselineMouthWidthRef
     /\ baselineEyeWidthRef' = IF lock THEN Avg(bufEye)
                               ELSE baselineEyeWidthRef
     /\ lowRun' = 0
     /\ speakRun' = 0
     /\ UNCHANGED <<speakingRef, consecSpeakingRef, consecSilentRef,
                    prevCenterRef, isSpeaking>>

\* the speaking counter that never falls back to zero
consecSpeakingAfterKept(candidate) ==
  consecSpeakingRef + (IF candidate THEN 1 ELSE 0)

\* consecSpeakingRef after a classified frame: one more on a candidate
\* speaking frame, zero on any other
consecSpeakingAfter(candidate) ==
  IF candidate THEN consecSpeakingRef + 1 ELSE 0

\* handleResults for a frame with a face, once the baseline is locked
DetectFrame(f) ==
  LET v == FrameValues(f) IN
     /\ smoothRatioRef' = v.ratio
     /\ baselineRef' = v.base
     /\ baselineMouthWidthRef' = v.baseMouth
     /\ baselineEyeWidthRef' = v.baseEye
     /\ prevCenterRef' = f.centerX
     /\ lowRun' = IF v.ratio < v.releaseThreshold THEN lowRun + 1 ELSE 0
     /\ speakRun' = IF v.currentlySpeaking THEN speakRun + 1 ELSE 0
     /\ IF v.currentlySpeaking
        THEN /\ consecSpeakingRef' = consecSpeakingAfter(TRUE)
             /\ consecSilentRef' = 0
             /\ LET on == ~speakingRef
                          /\ consecSpeakingRef + 1 >= minFramesSpeaking
                IN /\ speakingRef' = (speakingRef \/ on)
                   /\ isSpeaking' = (IF on THEN TRUE ELSE isSpeaking)
        ELSE /\ consecSilentRef' = consecSilentRef + 1
             /\ consecSpeakingRef' = consecSpeakingAfter(FALSE)
             /\ LET off == /\ speakingRef
                           /\ consecSilentRef + 1 >= minFramesSilent
                           /\ v.ratio < v.releaseThreshold
                IN /\ speakingRef' = (speakingRef /\ ~off)
                   /\ isSpeaking' = (IF off THEN FALSE ELSE isSpeaking)
     /\ UNCHANGED <<warmupBufferRef, warmupMouthWidthRef, warmupEyeWidthRef>>

hookVars == <<variant, fast, camSpeaking, mounted, status, isSessionActive,
              conversation, media, recognitionRef, synthRef,
              isSessionActiveRef, recognitionActiveRef,
              consecutiveNoSpeechRef, timer, ttsInProgressRef,
              ephemeralUserMessageIdRef, recognizer, utterances, cancelled,
              starts, turns, token, voiceVars, pageVars, stopStreak, silentRun,
              lastStart, streamVars>>
\* what no step of the detector changes
orchOnly == <<hookVars, logVars>>

\* FaceMesh delivers the landmarks of a frame: handleResults
VisualFrame(f) ==
  /\ framesSeen < MaxFrames
  /\ framesSeen' = framesSeen + 1
  /\ IF baselineRef = -1 THEN WarmupFrame(f) ELSE DetectFrame(f)
  /\ UNCHANGED cameraVars
  /\ UNCHANGED orchOnly

\* FaceMesh finds no face in the frame: handleResults returns at once
VisualNoFace ==
  /\ UNCHANGED visualVars
  /\ UNCHANGED orchOnly

VisualStart ==
  /\ OrchInit /\ variant = "dify" /\ fast /\ camSpeaking
  /\ StreamIdle
  /\ VisualInit /\ VoiceIdle /\ LogIdle

VisualNext ==
  \/ \E f \in Faces : VisualFrame(f)
  \/ VisualNoFace

SpecVisual == VisualStart /\ [][VisualNext]_vars

\* ====================================================== properties: Dify
\* C1: in the Dify hook recognitionActiveRef and ttsInProgressRef are never
\* both true, whatever the interleaving of callbacks.
C1_MutualExclusion ==
  variant = "dify" => ~(recognitionActiveRef /\ ttsInProgressRef)

\* C2: from the moment speak() queued an utterance until its end or error
\* event, no step starts a recognizer.
C2_NoStartWhileSpeaking ==
  [][(variant = "dify" /\ ttsInProgressRef /\ utterances > 0)
       => \A r \in DOMAIN recognizer :
            ~(recognizer[r] = "idle" /\ recognizer'[r] = "starting")]_vars

\* the step that counts the n-th no-speech error in a row, n below the pause
NoSpeechCounted ==
  /\ variant = "dify"
  /\ consecutiveNoSpeechRef' = consecutiveNoSpeechRef + 1
  /\ consecutiveNoSpeechRef' < 6

C4_PausedStaysPaused ==
  [][(/\ variant = "dify" /\ isSessionActiveRef
      /\ consecutiveNoSpeechRef >= 6
      /\ \E r \in DOMAIN recognizer :
           recognizer[r] = "ending" /\ recognizer'[r] = "idle")
       => ~(~timerArmed /\ timerArmed')]_vars

\* C5: when every listening period starts with onstart and ends in no-speech,
\* the count after the k-th such period in a row is k.
C5_CountGrowsPerPeriod ==
  [][(variant = "dify" /\ silentRun' = silentRun + 1)
       => consecutiveNoSpeechRef' = silentRun']_vars

\* ================================================= properties: both hooks
\* what a stop leaves: session inactive, flags false, count 0, no timer, media
\* handles released
Stopped ==
  /\ ~isSessionActive /\ ~isSessionActiveRef
  /\ ~recognitionActiveRef /\ ~ttsInProgressRef
  /\ consecutiveNoSpeechRef = 0
  /\ ~timerArmed /\ ~pendingRestartRef /\ ~restartTimeoutRef
  /\ recognitionRef = 0 /\ ephemeralUserMessageIdRef = 0 /\ utterances = 0
  /\ ~audioStreamRef /\ ~audioContextRef /\ ~analyserRef
  /\ ~volumeIntervalRef /\ ~volumeRafRef
  /\ status = (IF variant = "dify" THEN "Da dung phien" ELSE "Phien da dung")

\* C7: a stopSession that directly follows a stopSession (a second call, or
\* the teardown of unmount after an explicit stop), in both hooks, changes
\* nothing of what the first left, and what they leave is the stopped state.
C7_StopIdempotent ==
  [][(stopStreak >= 1 /\ stopStreak' = stopStreak + 1) =>
       /\ Stopped /\ Stopped'
       /\ UNCHANGED <<status, isSessionActive, conversation, media,
                      recognitionRef, synthRef, isSessionActiveRef,
                      recognitionActiveRef, consecutiveNoSpeechRef, timer,
                      ttsInProgressRef, ephemeralUserMessageIdRef, recognizer,
                      utterances, cancelled, turns>>]_vars

\* the teardown of unmount has run right after an explicit stop of a Dify
\* session that had a transcript and a started recognizer
C7_Witness ==
  /\ stopStreak = 2 /\ ~mounted /\ variant = "dify"
  /\ conversation # <<>> /\ recognizer # <<>>

\* C8: a final transcript that is noise at the volume of its event (empty
\* after trimming, a single denylisted token under the threshold, or shorter
\* than 2 characters under the threshold) is dropped: while the session is
\* active no backend call has been made for one, in either hook.
C8_NoiseNeverSubmitted ==
  isSessionActive =>
    \A t \in DOMAIN turns :
      turns[t].kind = "speech" => ~IsNoise(turns[t].query, turns[t].volume)

\* the final user messages of a transcript
FinalUserMessages(conv) ==
  {i \in DOMAIN conv : conv[i].role = "user" /\ conv[i].isFinal}

\* C10: a final transcript T accepted in an active session of the Dify hook
\* leaves one more final user message, with text T, and after it exactly one
\* new assistant placeholder (processing, not final), and issues one request
\* with query T.
C10_FinalTranscriptTurn ==
  [][(/\ variant = "dify" /\ isSessionActive /\ isSessionActiveRef
      /\ Len(turns') = Len(turns) + 1
      /\ turns'[Len(turns')].kind = "speech")
       => LET t == turns'[Len(turns')] IN
            /\ Cardinality(FinalUserMessages(conversation')) =
                 Cardinality(FinalUserMessages(conversation)) + 1
            /\ \E i \in FinalUserMessages(conversation') :
                 conversation'[i].text = t.query /\ i < t.assistantId
            /\ Len(conversation') = Len(conversation) + 1
            /\ conversation'[Len(conversation')] = NewPlaceholder(t.assistantId)]_vars

\* ============================================= properties: streamDify
\* the answers of the lines up to the record that completes the stream
RECURSIVE SentChunks(_)
SentChunks(lines) ==
  IF lines = <<>> \/ Head(lines) \in {"end", "done"} THEN <<>>
  ELSE IF Head(lines) \in {"blank", "err", "bad"} THEN SentChunks(Tail(lines))
  ELSE IF Head(lines) = "cx" THEN <<"x">> \o SentChunks(Tail(lines))
  ELSE <<Head(lines)>> \o SentChunks(Tail(lines))

\* C6: whatever the split of the body into reads, the text shown after the
\* k-th chunk is c1 + ... + ck, the placeholder shows the last of these while
\* the stream is read, and at completion it shows c1 + ... + cn.
C6_ChunksConcatenate ==
  LET sent == SentChunks(sseLines) IN
    /\ Len(shown) <= Len(sent)
    /\ \A k \in DOMAIN shown : shown[k] = SubSeq(sent, 1, k)
    /\ streamPhase = "reading" =>
         placeholder.text = SubSeq(sent, 1, Len(shown))
    /\ streamPhase = "done" =>
         /\ Len(shown) = Len(sent)
         /\ placeholder.text = sent /\ placeholder.isFinal

\* a stream of two chunks whose second record has no line feed has completed
C6_Witness ==
  /\ streamPhase = "done" /\ ~lastTerminated
  /\ sseLines = <<"x", "y">>
  /\ shown = << <<"x">>, <<"x", "y">> >>
  /\ placeholder.text = <<"x", "y">>

\* ======================================== properties: visual detector
\* C9: once speaking, the detector stops speaking only on a frame that ends a
\* run of at least minFramesSilent frames each with ratio below the release
\* threshold.
C9_ReleaseNeedsLowRun ==
  [][(speakingRef /\ ~speakingRef') => lowRun' >= minFramesSilent]_vars

\* ============================================ properties: backend failure
\* the assistant messages a transcript holds under one id
OwnMessages(conv, id) ==
  {i \in DOMAIN conv : conv[i].role = "assistant" /\ conv[i].id = id}

\* the step in which the backend call of turn t fails
BackendFails(t) ==
  /\ t \in DOMAIN turns /\ t \in DOMAIN turns'
  /\ turns[t].phase \in {"streaming", "waiting"}
  /\ turns'[t].phase \in {"error", "fallback", "failed"}

\* C11: when the backend call of a turn fails, in either hook, the transcript
\* then holds exactly one assistant message of that turn, final and with an
\* error or fallback text (the Gemini hook appends it, the Dify hook rewrites
\* its placeholder), the status is an error status, and isSessionActive, the
\* recognizer held and the state of every recognizer are unchanged.
C11_BackendFailure ==
  [][\A t \in DOMAIN turns : BackendFails(t) =>
       LET own == OwnMessages(conversation', turns'[t].assistantId) IN
         /\ Cardinality(own) = 1
         /\ \A i \in own :
              /\ conversation'[i].isFinal
              /\ conversation'[i].text \in
                   {<<"(Loi: ", "failed", ")">>, <<"fallback">>}
         /\ Len(conversation') =
              Len(conversation) + (IF variant = "gemini" THEN 1 ELSE 0)
         /\ status' \in {"Loi Dify", "Loi xu ly", "Loi xu ly tin nhan"}
         /\ UNCHANGED <<isSessionActive, isSessionActiveRef, recognitionRef,
                        recognizer>>]_vars

\* the backend call of a spoken turn has failed while the session is active
\* and its recognizer is held; the transcript holds the turn's message
C11_Witness ==
  /\ isSessionActive /\ recognitionRef # 0
  /\ \E t \in DOMAIN turns :
       /\ turns[t].kind = "speech"
       /\ turns[t].phase \in {"error", "fallback"}
       /\ OwnMessages(conversation, turns[t].assistantId) # {}

\* C12: once the backend call of a turn of the Dify hook has terminated, by
\* completion or by error, its placeholder is final with status "final", so
\* no assistant message of an ended turn still has status "processing".
C12_PlaceholderLeavesProcessing ==
  variant = "dify" =>
    \A t \in DOMAIN turns : turns[t].phase \in {"done", "error"} =>
      \A i \in OwnMessages(conversation, turns[t].assistantId) :
        /\ conversation[i].isFinal
        /\ conversation[i].status = "final"

\* the user messages of a transcript that are not final
OpenUserMessages(conv) ==
  {i \in DOMAIN conv : conv[i].role = "user" /\ ~conv[i].isFinal}

\* C13: in every reachable state of either hook the transcript holds at most
\* one user message that is not final (the ephemeral message).
C13_OneEphemeral ==
  Cardinality(OpenUserMessages(conversation)) <= 1

\* ================================================ properties: restart timer
\* C14: in the Dify hook at most one restart timeout is pending at any time,
\* and pendingRestartRef is true exactly while one is pending.
C14_OneTimerPending ==
  variant = "dify" =>
    /\ orphanTimers + (IF timerArmed THEN 1 ELSE 0) <= 1
    /\ pendingRestartRef <=> (timerArmed \/ orphanTimers > 0)

\* a restart is pending whose scheduling cancelled the pending one, and
\* pendingRestartRef is true
C14_Witness ==
  /\ variant = "dify" /\ isSessionActiveRef
  /\ timerArmed /\ timerReplaced /\ pendingRestartRef

\* ============================================ properties: recognizer starts
\* C15: in the Dify hook no callback calls start() on a recognizer that is
\* starting or already listening.
C15_NoDuplicateStart ==
  variant = "dify" => lastStart \notin {"starting", "listening"}

\* ========================================= properties: resuming after TTS
\* the end or error event of an utterance is handled in an active session
TtsOver ==
  /\ ttsInProgressRef /\ ~ttsInProgressRef'
  /\ isSessionActiveRef /\ isSessionActiveRef'

\* a restart scheduled by the end or error handler of an utterance is pending
ResumePending ==
  /\ isSessionActiveRef /\ ~ttsInProgressRef
  /\ timerArmed /\ timerDelay \in {FastTtsEndCap, TtsErrorDelay}

StopCalled == stopStreak' >= 1

\* C17: when stopSession of the Dify hook returns, no restart timer is
\* pending, recognitionActiveRef and ttsInProgressRef are false, the no-speech
\* count is 0, no microphone stream is left with live tracks and the audio
\* context is closed; and while the session stays inactive no callback calls
\* start().
C17_StopReleasesAll ==
  /\ [][(variant = "dify" /\ StopCalled) =>
          /\ ~timerArmed' /\ orphanTimers' = 0 /\ ~pendingRestartRef'
          /\ ~recognitionActiveRef' /\ ~ttsInProgressRef'
          /\ consecutiveNoSpeechRef' = 0
          /\ ~audioStreamRef' /\ liveStreams' = 0
          /\ ~audioContextRef']_vars
  /\ [][(variant = "dify" /\ ~isSessionActiveRef /\ ~isSessionActiveRef')
          => lastStart' = "none"]_vars


\* C18: after stopSession completes the conversation transcript is empty, in
\* the Dify hook and in the Gemini hook: every step in which stopSession runs
\* leaves conversation empty, while the hook stays mounted and its state shown
C18_TranscriptCleared ==
  [][StopCalled /\ mounted' => conversation' = <<>>]_vars


\* the request of turn t is the first one of a session that follows another
FirstOfNextSession(t) ==
  /\ turns[t].session >= 2
  /\ \A u \in 1..(t - 1) : turns[u].session # turns[t].session

\* C19: session state is not carried across sessions (Dify hook): after
\* stopSession has run the continuity token conversationId is absent, and the
\* first backend request of a session that follows another carries no
\* conversation_id
C19_NoTokenAcrossSessions ==
  /\ (~isSessionActive /\ stopStreak >= 1) => conversationId = 0
  /\ \A t \in DOMAIN turns :
       FirstOfNextSession(t) => turns[t].conversation_id = 0


\* the status the catch block of startSession sets before it calls
\* stopSession
StartErrorStatus ==
  IF variant = "dify" THEN "Loi khoi tao phien" ELSE "Loi: error"

\* a startSession call has ended in its catch block
StartFailed == SessionsStarted' < SessionsStarted

\* C20: when getUserMedia or initializeSpeech fails during startSession, in
\* both hooks, the step of the catch block leaves the session inactive, the
\* microphone stream, the audio context and the recognizer released, and the
\* error status as the status shown
C20_FailedStartShowsError ==
  [][StartFailed =>
       /\ ~isSessionActive'
       /\ ~audioStreamRef' /\ liveStreams' = 0 /\ ~audioContextRef'
       /\ ~analyserRef' /\ recognitionRef' = 0
       /\ status' = StartErrorStatus]_vars


\* C21: a stopSession called while startSession still awaits getUserMedia or
\* initializeSpeech ends the attempt (Dify hook).  The teardown of unmount
\* calls stopSession in any state and no startSession can follow it, so once
\* the hook is unmounted the session is not active, no microphone stream is
\* held and no stream has live tracks
C21_StopDuringStart ==
  (variant = "dify" /\ ~mounted) =>
    /\ ~isSessionActiveRef /\ ~isSessionActive
    /\ ~audioStreamRef /\ liveStreams = 0


\* C22: within one session of the Dify hook, when the last turn has completed
\* with a conversation_id issued by the backend, the next backend request of
\* that session carries this conversation_id
C22_TokenContinues ==
  [][(/\ variant = "dify"
      /\ turns # <<>> /\ Len(turns') = Len(turns) + 1
      /\ turns[Len(turns)].phase = "done"
      /\ turns[Len(turns)].issued # 0
      /\ turns'[Len(turns')].session = turns[Len(turns)].session
      /\ isSessionActive)
       => turns'[Len(turns')].conversation_id = turns[Len(turns)].issued]_vars


\* the positions of the terminal callbacks in a sequence of callbacks
Terminals(cb) == {i \in DOMAIN cb : cb[i].type \in {"done", "error"}}

\* the texts of the onChunk calls of a sequence of callbacks, in order
RECURSIVE ChunkTexts(_)
ChunkTexts(cb) ==
  IF cb = <<>> THEN <<>>
  ELSE IF Head(cb).type = "chunk" THEN <<Head(cb).text>> \o ChunkTexts(Tail(cb))
  ELSE ChunkTexts(Tail(cb))

\* C23: one call of streamDify whose handlers do not throw makes no terminal
\* callback while it reads, and once it has ended it has made exactly one,
\* onDone or onError, as its last callback, so that every onChunk precedes it;
\* the onChunk calls are those of the answers up to the first message_end or
\* [DONE], so that records after it produce no callback; and the call ends
\* when every read settles
C23_OneTerminalCallback ==
  /\ [](/\ streamPhase \in {"fetching", "reading"} =>
             Terminals(callbacks) = {}
        /\ streamPhase \in {"done", "error"} =>
             Terminals(callbacks) = {Len(callbacks)}
        /\ LET sent == SentChunks(sseLines)
               made == ChunkTexts(callbacks)
           IN /\ Len(made) <= Len(sent)
              /\ \A k \in DOMAIN made : made[k] = <<sent[k]>>
              /\ streamPhase = "done" => Len(made) = Len(sent))
  /\ <>(streamPhase \in {"done", "error"})

\* a stream whose message_end record is followed by an answer record has
\* completed with the one chunk before it and onDone
C23_Witness ==
  /\ sseLines = <<"x", "end", "y">> /\ lastTerminated
  /\ streamPhase = "done" /\ wire = <<>>
  /\ callbacks = << [type |-> "chunk", text |-> <<"x">>],
                    [type |-> "done", text |-> <<"x">>, conversationId |-> 0] >>


\* C24: a data line whose payload does not parse is skipped: no step that
\* reads the body ends in onError, and a stream that has completed has applied
\* the well-formed answers before its terminating record in order, with
\* onDone carrying their concatenation
C24_MalformedSkipped ==
  /\ [][wire' # wire => streamPhase' # "error"]_vars
  /\ [](streamPhase = "done" =>
          LET sent == SentChunks(sseLines) IN
            /\ full = sent
            /\ callbacks[Len(callbacks)].type = "done"
            /\ callbacks[Len(callbacks)].text = sent
            /\ ChunkTexts(callbacks) = [k \in DOMAIN sent |-> <<sent[k]>>])

\* a stream with a malformed record between two answers has completed with
\* both answers
C24_Witness ==
  /\ sseLines = <<"x", "bad", "y">>
  /\ streamPhase = "done"
  /\ full = <<"x", "y">>
  /\ ChunkTexts(callbacks) = << <<"x">>, <<"y">> >>


\* the body carries a record with an error payload before the record that
\* completes the stream
ErrorSent(lines) ==
  \E i \in DOMAIN lines :
    /\ lines[i] = "err"
    /\ \A j \in 1..(i - 1) : lines[j] \notin {"end", "done"}

\* C25: when the stream carries a record with an explicit error payload, the
\* call ends with the assistant placeholder final and showing an error text
C25_ErrorPayloadShown ==
  (ErrorSent(sseLines) /\ streamPhase \in {"done", "error"}) =>
    /\ placeholder.isFinal
    /\ placeholder.text # <<>> /\ Head(placeholder.text) = "(Loi: "


\* the last record of the body has no line feed and no record before it
\* completes the stream
TrailingRecord(kind) ==
  /\ sseLines # <<>> /\ ~lastTerminated
  /\ sseLines[Len(sseLines)] = kind
  /\ \A j \in 1..(Len(sseLines) - 1) : sseLines[j] \notin {"end", "done"}

\* C26: a record left in the buffer when the stream ends is processed like any
\* other before onDone: its answer is delivered as the last chunk and is part
\* of the text of onDone, and its conversation_id is the one onDone reports
C26_ResidualProcessed ==
  (streamPhase = "done" /\ TrailingRecord("cx")) =>
    LET n == Len(callbacks) IN
      /\ n >= 2
      /\ callbacks[n - 1] = [type |-> "chunk", text |-> <<"x">>]
      /\ callbacks[n].text = SentChunks(sseLines)
      /\ callbacks[n].conversationId = 1


\* the order of the claim over the voices of list, with the indexes of the
\* voices that count as female: identifier, then locale and female, then
\* locale, then female, then the first voice, else null
StatedVoice(pref, list, females) ==
  LET vi == {i \in DOMAIN list : StartsWith(list[i].lang, Vi)} IN
  Find(IF \E i \in DOMAIN list : list[i].voiceURI = pref
       THEN {i \in DOMAIN list : list[i].voiceURI = pref}
       ELSE IF vi \cap females # {} THEN vi \cap females
       ELSE IF vi # {} THEN vi
       ELSE IF females # {} THEN females
       ELSE DOMAIN list)

\* C27 as stated: with the synthesizer held, either hook's selector
\* returns the first match of the order in which female means that the name
\* contains "female", and null exactly when the list is empty
C27_VoiceOrderStated ==
  [][(synthRef /\ selectedVoice' # selectedVoice) =>
       /\ selectedVoice' =
            StatedVoice(voice, voices,
                        {i \in DOMAIN voices : Includes(voices[i].name, Female)})
       /\ selectedVoice' = 0 <=> voices = <<>>]_vars

\* C27, amended: the same with female meaning that the lower-cased name
\* contains "female"
C27_VoiceOrder ==
  [][(synthRef /\ selectedVoice' # selectedVoice) =>
       /\ selectedVoice' =
            StatedVoice(voice, voices,
                        {i \in DOMAIN voices :
                           Includes(ToLowerCase(voices[i].name), Female)})
       /\ selectedVoice' = 0 <=> voices = <<>>]_vars

\* the Gemini hook has passed over a voice of the locale for a later one of
\* the locale whose name says Female, no voice matching the preference
C27_Witness ==
  /\ variant = "gemini" /\ synthRef /\ voice = 3
  /\ Len(voices) = 2 /\ selectedVoice = 2
  /\ voices[1].lang = <<"v", "i", "-", "V", "N">>
  /\ voices[1].name = <<"m", "a", "l", "e">>
  /\ voices[2].lang = <<"v", "i", "-", "V", "N">>
  /\ voices[2].name = <<"F", "e", "m", "a", "l", "e">>


\* C28: while the visual gate reports not speaking in an active session of the
\* Dify hook, no path restarts recognition: a step that begins and ends with
\* camSpeaking false in an active session does not call start()
C28_GateClosedNoStart ==
  [][(variant = "dify" /\ isSessionActive /\ ~camSpeaking /\ ~camSpeaking')
       => lastStart' = "none"]_vars


\* C29: the idle loop of the page stops only a session that the auto-start
\* of the visual gate has started: the step in which the interval calls
\* stopSession (the only one that clears autoStarted) is never taken in a
\* session that a click has started
C29_IdleStopsOnlyAutoStarted ==
  [][(autoStarted /\ ~autoStarted') => ~userStarted]_vars


\* C30: speaking turns from false to true only on a frame that completes a
\* run of at least minFramesSpeaking candidate-speaking frames in a row, the
\* detector's counter is that run (any classified frame that is no candidate
\* puts it back to zero), and speaking does not change while the baseline is
\* still null.
C30_DebounceOn ==
  [][/\ (~speakingRef /\ speakingRef') => speakRun' >= minFramesSpeaking
     /\ consecSpeakingRef' = speakRun'
     /\ baselineRef = -1 => speakingRef' = speakingRef]_vars

\* a candidate frame, a frame that is no candidate, then the run of
\* minFramesSpeaking candidate frames that turns speaking on
C30_Witness ==
  /\ speakingRef /\ isSpeaking
  /\ speakRun = minFramesSpeaking
  /\ consecSilentRef = 0
  /\ framesSeen = WarmupFrames + minFramesSpeaking + 2


\* ============================================ the detector's effect and loop
MaxEffects == 2        \* runs of the effect (mount, one dependency change)
MaxCameraFrames == 6   \* frames with a face handled in one run of the model

Runs == DOMAIN effects

\* the cleanup the effect returns (215-220): cancelled = true, clearTimeout of
\* the id frameTimerRef holds, stop the tracks of the stream streamRef holds
Cleanup(e) ==
  /\ effects' = [effects EXCEPT ![e].cancelled = TRUE]
  /\ armedTimers' = armedTimers \ {frameTimerRef}
  /\ liveTracks' = liveTracks \ {streamRef}

\* the component mounts: the effect runs and awaits getUserMedia
CameraMount ==
  /\ effects = <<>>
  /\ effects' = <<[phase |-> "getUserMedia", cancelled |-> FALSE]>>
  /\ UNCHANGED <<streamRef, faceMeshRef, frameTimerRef, armedTimers,
                 liveTracks, detectorVars, orchOnly>>

\* a dependency of the effect changes (fps, thresholds, frame counts, debug):
\* React runs the cleanup of the last run, then the effect again
CameraDepsChange ==
  /\ effects # <<>> /\ Len(effects) < MaxEffects
  /\ ~effects[Len(effects)].cancelled
  /\ armedTimers' = armedTimers \ {frameTimerRef}
  /\ liveTracks' = liveTracks \ {streamRef}
  /\ effects' = Append([effects EXCEPT ![Len(effects)].cancelled = TRUE],
                       [phase |-> "getUserMedia", cancelled |-> FALSE])
  /\ UNCHANGED <<streamRef, faceMeshRef, frameTimerRef, detectorVars,
                 orchOnly>>

\* the component unmounts: React runs the cleanup of the last run
CameraUnmount ==
  /\ effects # <<>>
  /\ ~effects[Len(effects)].cancelled
  /\ Cleanup(Len(effects))
  /\ UNCHANGED <<streamRef, faceMeshRef, frameTimerRef, detectorVars,
                 orchOnly>>

\* getUserMedia resolves (193-194): streamRef is assigned, then cancelled is
\* looked at; a run that goes on awaits video.play()
CameraGranted(e) ==
  /\ effects[e].phase = "getUserMedia"
  /\ streamRef' = e
  /\ liveTracks' = liveTracks \cup {e}
  /\ effects' = [effects EXCEPT ![e].phase =
                   IF effects[e].cancelled THEN "returned" ELSE "play"]
  /\ UNCHANGED <<faceMeshRef, frameTimerRef, armedTimers, detectorVars,
                 orchOnly>>

\* video.play() resolves (199): the run awaits the import of face_mesh
CameraPlaying(e) ==
  /\ effects[e].phase = "play"
  /\ effects' = [effects EXCEPT ![e].phase = "import"]
  /\ UNCHANGED <<streamRef, faceMeshRef, frameTimerRef, armedTimers,
                 liveTracks, detectorVars, orchOnly>>

\* the import resolves (201-209): FaceMesh is created, tick() calls
\* processFrame, which awaits send
CameraImported(e) ==
  /\ effects[e].phase = "import"
  /\ faceMeshRef' = e
  /\ effects' = [effects EXCEPT ![e].phase = "sending"]
  /\ UNCHANGED <<streamRef, frameTimerRef, armedTimers, liveTracks,
                 detectorVars, orchOnly>>

\* getUserMedia, play() or the import rejects (210-212): logged, run over
CameraInitFails(e) ==
  /\ effects[e].phase \in {"getUserMedia", "play", "import"}
  /\ effects' = [effects EXCEPT ![e].phase = "failed"]
  /\ UNCHANGED <<streamRef, faceMeshRef, frameTimerRef, armedTimers,
                 liveTracks, detectorVars, orchOnly>>

\* tick after the awaited processFrame (208): the next timeout is armed
TickArms(e) ==
  /\ effects' = [effects EXCEPT ![e].phase = "waiting"]
  /\ frameTimerRef' = e
  /\ armedTimers' = armedTimers \cup {e}
  /\ UNCHANGED <<streamRef, faceMeshRef, liveTracks>>

\* send delivers a frame with a face to handleResults, then resolves
CameraFrame(e, f) ==
  /\ effects[e].phase = "sending"
  /\ framesSeen < MaxCameraFrames
  /\ framesSeen' = framesSeen + 1
  /\ IF baselineRef = -1 THEN WarmupFrame(f) ELSE DetectFrame(f)
  /\ TickArms(e)
  /\ UNCHANGED orchOnly

\* send delivers a frame without a face: handleResults returns at once
CameraNoFace(e) ==
  /\ effects[e].phase = "sending"
  /\ TickArms(e)
  /\ UNCHANGED <<detectorVars, orchOnly>>

\* the frame timeout fires (208): tick calls processFrame, which awaits send
CameraTimerFires(e) ==
  /\ e \in armedTimers
  /\ armedTimers' = armedTimers \ {e}
  /\ effects' = [effects EXCEPT ![e].phase = "sending"]
  /\ UNCHANGED <<streamRef, faceMeshRef, frameTimerRef, liveTracks,
                 detectorVars, orchOnly>>

CameraNext ==
  \/ CameraMount
  \/ CameraDepsChange
  \/ CameraUnmount
  \/ \E e \in Runs : CameraGranted(e)
  \/ \E e \in Runs : CameraPlaying(e)
  \/ \E e \in Runs : CameraImported(e)
  \/ \E e \in Runs : CameraInitFails(e)
  \/ \E e \in Runs, f \in Faces : CameraFrame(e, f)
  \/ \E e \in Runs : CameraNoFace(e)
  \/ \E e \in Runs : CameraTimerFires(e)

SpecCamera == VisualStart /\ [][CameraNext]_vars

\* C31: a new run of the detector's effect starts from a reset detector:
\* baseline null, warm-up samples empty, speaking false, both debounce
\* counters zero.
C31_RestartResets ==
  [][Len(effects') > Len(effects)
       => /\ baselineRef' = -1
          /\ warmupBufferRef' = <<>>
          /\ ~speakingRef' /\ ~isSpeaking'
          /\ consecSpeakingRef' = 0 /\ consecSilentRef' = 0]_vars

\* C39: once the cleanup of a run of the effect has been executed, that run
\* sends no further frame for processing, has no frame timeout armed and its
\* camera tracks are stopped.
C39_TeardownQuiet ==
  [][\A e \in Runs :
       effects[e].cancelled
         => /\ ~(effects[e].phase # "sending" /\ effects'[e].phase = "sending")
            /\ e \notin armedTimers'
            /\ e \notin liveTracks']_vars


\* ==================================================== the diagnostic logs
FlowCapacity == 2000    \* flow-tracker.ts 30
maxLogs == 1000         \* logger.ts 24
MaxFlowPushes == 2003   \* events pushed to the flow tracker
MaxLogAdds == 3         \* entries added to the logger after construction

\* arr.slice(0, n): the first n elements
SliceFirst(arr, n) == SubSeq(arr, 1, Min(n, Len(arr)))

\* arr.slice(-n): the last n elements
SliceLast(arr, n) ==
  IF Len(arr) <= n THEN arr ELSE SubSeq(arr, Len(arr) - n + 1, Len(arr))

\* FlowTracker.push (27-38)
FlowPush ==
  /\ flowPushed < MaxFlowPushes
  /\ flowPushed' = flowPushed + 1
  /\ flowEvents' =
       IF ~flowEnabled THEN flowEvents
       ELSE LET pushed == Append(flowEvents, flowPushed + 1)
            IN IF Len(pushed) > FlowCapacity
               THEN SliceLast(pushed, FlowCapacity) ELSE pushed
  /\ UNCHANGED <<flowEnabled, logs, logSaved, logAdded, hookVars, visualVars>>

\* Logger.addLog (77-99)
LoggerAddLog ==
  /\ logAdded < logSaved + MaxLogAdds
  /\ LET pushed == Append(logs, logAdded + 1)
     IN logs' = IF Len(pushed) > maxLogs
                THEN SliceLast(pushed, maxLogs) ELSE pushed
  /\ logAdded' = logAdded + 1
  /\ UNCHANGED <<flowEnabled, flowEvents, flowPushed, logSaved, hookVars,
                 visualVars>>

\* the number of entries the constructor may find under appLogs in
\* localStorage (38-59): what an earlier addLog saved, so at most maxLogs
SavedLogs == {0, maxLogs - 1, maxLogs}

\* flow and logger as constructed: the flags of the environment decide
\* enabled, the logger holds the saved entries
LogInit ==
  /\ OrchInit /\ variant = "dify" /\ fast /\ camSpeaking
  /\ StreamIdle /\ VisualInit /\ VoiceIdle
  /\ flowEnabled \in BOOLEAN
  /\ flowEvents = <<>> /\ flowPushed = 0
  /\ logSaved \in SavedLogs
  /\ logs = [i \in 1..logSaved |-> i]
  /\ logAdded = logSaved

LogNext ==
  \/ FlowPush
  \/ LoggerAddLog

SpecLog == LogInit /\ [][LogNext]_vars

\* the last n of the numbers 1..count, in order
LastOf(count, n) ==
  [i \in 1..Min(count, n) |-> count - Min(count, n) + i]

\* C32: the flow tracker holds at most 2000 events and the logger at most
\* 1000 entries, and each holds the newest of what was appended, in append
\* order.
C32_CappedLogs ==
  /\ Len(flowEvents) <= FlowCapacity
  /\ Len(logs) <= maxLogs
  /\ flowEnabled => flowEvents = LastOf(flowPushed, FlowCapacity)
  /\ logs = LastOf(logAdded, maxLogs)

\* both logs are full and each has dropped its oldest entries
C32_Witness ==
  /\ flowEnabled
  /\ flowPushed = FlowCapacity + 2 /\ Len(flowEvents) = FlowCapacity
  /\ flowEvents[1] = 3
  /\ logAdded = maxLogs + 2 /\ Len(logs) = maxLogs
  /\ logs[1] = 3


\* ================================ two turns with typed and spoken requests
HistoryNext ==
  \/ SessionsStarted < MaxSessions /\ DifyStartSession
  \/ DifyMicGranted
  \/ DifySpeechInitDone
  \/ DifyStopSession
  \/ DifyRestartTimerFire
  \/ \E r \in DOMAIN recognizer : DifyOnStart(r)
  \/ \E r \in DOMAIN recognizer : DifyOnEnd(r)
  \/ \E r \in DOMAIN recognizer, final \in Texts, interim \in Texts,
        vol \in Volumes :
        /\ final # <<>> => Len(turns) < MaxTalkTurns
        /\ DifyOnResult(r, final, interim, vol)
  \/ \E t \in DOMAIN turns, chunk \in Chunks : DifyOnChunk(t, chunk)
  \/ \E t \in DOMAIN turns : DifyOnDone(t)
  \/ \E t \in DOMAIN turns : DifyOnStreamError(t)
  \/ DifyUtterEnd
  \/ \E text \in TypedTexts :
        Len(turns) < MaxTalkTurns /\ DifySendTextMessage(text)

SpecHistory == TalkInit /\ [][HistoryNext]_vars

\* C33: a transcript message that has isFinal = true keeps its place, id,
\* role and text in every later state.
C33_FinalImmutable ==
  [][\A i \in DOMAIN conversation :
       conversation[i].isFinal
         => /\ i \in DOMAIN conversation'
            /\ conversation'[i].id = conversation[i].id
            /\ conversation'[i].role = conversation[i].role
            /\ conversation'[i].text = conversation[i].text
            /\ conversation'[i].isFinal]_vars


\* both turns are over: two requests and two answers are final, an answer
\* has text
C33_Witness ==
  /\ Len(turns) = MaxTalkTurns
  /\ \A t \in DOMAIN turns : turns[t].phase = "done"
  /\ Len(conversation) >= 4
  /\ \A i \in 1..4 : conversation[i].isFinal
  /\ \E i \in 1..4 :
       conversation[i].role = "assistant" /\ conversation[i].text # <<>>


\* C34: in the Gemini hook no recognizer is listening while an answer is
\* being played by speech synthesis.
C34_GeminiTurnTaking ==
  variant = "gemini"
    => ~(/\ \E t \in DOMAIN turns : turns[t].phase = "playing"
         /\ \E r \in DOMAIN recognizer : recognizer[r] = "listening")


\* a callback of a backend call made earlier (chunk, done or error) runs
\* while the last thing the mounted hook did was to stop a session that had
\* got its microphone and speech synthesis
LateResponse ==
  /\ variant = "dify"
  /\ mounted /\ synthRef
  /\ status = "Da dung phien" /\ ~isSessionActiveRef
  /\ Len(turns') = Len(turns) /\ turns' # turns

\* C35: after stopSession the chunks and the terminal callback of a response
\* still in flight leave the transcript alone, queue no utterance and leave
\* ttsInProgress false.
C35_StoppedIgnoresResponse ==
  [][LateResponse
       => /\ conversation' = conversation
          /\ utterances' = utterances
          /\ ~ttsInProgressRef']_vars


\* C36: at most one microphone stream has live tracks at any time: a
\* startSession called while an earlier one awaits the microphone or the
\* voices acquires no second stream.
C36_OneStartAtATime ==
  variant = "dify" => liveStreams <= 1


\* C37: in an active session of the Dify hook ttsInProgressRef is true while
\* an utterance queued by speak() is still queued or playing, and no restart
\* timer is armed meanwhile.
C37_FlagCoversQueue ==
  (variant = "dify" /\ isSessionActiveRef /\ utterances > 0)
    => ttsInProgressRef /\ ~timerArmed


\* sendTextMessage has taken a non-blank text: its turn is the new last one
TextSent ==
  /\ variant = "dify"
  /\ Len(turns') = Len(turns) + 1
  /\ turns'[Len(turns')].kind = "text"

\* C38: sendTextMessage with a non-blank text leaves every message of the
\* transcript as it was and appends one final user message with that text
\* and one assistant placeholder, whether or not an ephemeral message exists.
C38_TypedAddsOneMessage ==
  [][TextSent =>
       LET n == Len(conversation) IN
         /\ Len(conversation') = n + 2
         /\ SubSeq(conversation', 1, n) = conversation
         /\ conversation'[n + 1].role = "user"
         /\ conversation'[n + 1].text = turns'[Len(turns')].query
         /\ conversation'[n + 1].isFinal
         /\ conversation'[n + 2] = NewPlaceholder(n + 2)]_vars


\* ================================ recovery of recognition after it has ended
RecoverNext ==
  \/ SessionsStarted < MaxSessions /\ DifyStartSession
  \/ DifyMicGranted
  \/ DifySpeechInitDone
  \/ DifyStopSession
  \/ DifyCamChange
  \/ DifyRestartTimerFire
  \/ \E r \in DOMAIN recognizer : DifyOnStart(r)
  \/ \E r \in DOMAIN recognizer : DifyOnEnd(r)
  \/ \E r \in DOMAIN recognizer, err \in ErrorKinds : DifyOnError(r, err)
  \/ \E r \in DOMAIN recognizer, final \in Texts, interim \in Texts,
        vol \in Volumes :
        /\ final # <<>> => Len(turns) < MaxTurns
        /\ DifyOnResult(r, final, interim, vol)
  \/ \E t \in DOMAIN turns, chunk \in Chunks : DifyOnChunk(t, chunk)
  \/ \E t \in DOMAIN turns : DifyOnDone(t)
  \/ DifyUtterEnd
  \/ DifyUtterError

\* a recognizer on which start() succeeded fires its start event
RecognizerStarts == \E r \in DOMAIN recognizer : DifyOnStart(r)

\* timers fire and a stopped or failed recognizer fires its end event (weak
\* fairness); a recognizer that is started again and again does start in
\* the end (strong fairness: an error event may cut a single start short)
SpecRecover ==
  /\ TalkInit /\ [][RecoverNext]_vars
  /\ WF_vars(DifyRestartTimerFire)
  /\ WF_vars(RecognizerEnds)
  /\ SF_vars(RecognizerStarts)

\* the recognizer of an active session has ended: the session is not paused,
\* no TTS is in progress and the visual gate is open
RecognitionEnded ==
  /\ variant = "dify"
  /\ isSessionActiveRef /\ isSessionActive /\ ~ttsInProgressRef /\ camSpeaking
  /\ consecutiveNoSpeechRef < NoSpeechPauseThreshold
  /\ recognitionRef # 0 /\ recognizer[recognitionRef] = "idle"

\* what takes the session out of the case: it is stopped or paused, an
\* utterance starts or the gate closes
LeftListeningCase ==
  \/ ~isSessionActiveRef \/ ttsInProgressRef \/ ~camSpeaking
  \/ consecutiveNoSpeechRef >= NoSpeechPauseThreshold

\* C40: after the recognizer of an active, unpaused session with no TTS in
\* progress and the gate open has ended, recognition becomes active again (a
\* recognizer of the hook is listening), also when a start() of a restart
\* attempt threw in between.
C40_RecognitionComesBack ==
  RecognitionEnded
    ~> (\/ \E r \in DOMAIN recognizer : recognizer[r] = "listening"
        \/ LeftListeningCase)


\* a start() has just thrown on a recognizer that had not ended yet, in an
\* active session with the gate open and no TTS, and no restart timer is
\* pending: the end event of that recognizer has to bring the next attempt
C40_Witness ==
  /\ variant = "dify"
  /\ isSessionActiveRef /\ ~ttsInProgressRef /\ camSpeaking
  /\ consecutiveNoSpeechRef < NoSpeechPauseThreshold
  /\ lastStart \in {"stopping", "ending"}
  /\ ~timerArmed /\ orphanTimers = 0 /\ ~pendingRestartRef

====
